---------------------------- MODULE Spec2Model ----------------------------
(***************************************************************************)
(* QuerySmith: the TTL result cache (query_cache.py), the cache_query      *)
(* decorator and the backends' execute_query entry points, the connection  *)
(* life cycle of the PostgreSQL and MySQL models, the transaction scopes,  *)
(* schema sync, save / load / delete of a model instance, the type         *)
(* mapping, the CREATE statement builder, and the class-level queries.     *)
(* Each part has its own specification over the shared variables.          *)
(*                                                                         *)
(* Text (str) values are sequences of one-character strings, so that       *)
(* strip(), lower() and startswith() are computed, not assumed.            *)
(***************************************************************************)
EXTENDS Integers, Sequences, FiniteSets, TLC

VARIABLES
    cache,      \* QueryCache.cache: key -> [value, timestamp]
    now,        \* time.time(), in seconds
    lastSet,    \* history: key -> [value, timestamp] of the latest set since the latest clear
    lastRun,    \* history: SELECT call -> [value, timestamp] of its latest execution since the latest clear
    ret,        \* outcome of the latest direct QueryCache call
    callers,    \* per caller: the position of its cache_query wrapper call and its outcome
    inst,       \* a PostgreSQL or MySQL model instance: backend, max_retries, retry_delay
    conn,       \* the instance's handle: "none" (None), "open", or "closed"
    failsLeft,  \* the driver's connect function: failures still to come before it succeeds
    task,       \* the task using the instance: its position in _connect / _execute and its outcome
    table,      \* the SQLite table as committed to the database file: values by rowid
    scope,      \* the transaction scope of an SQLite model: its position, its own connection, what was saved inside
    txn,        \* one run of `async with transaction()` on a model of some backend, step by step
    mdl,        \* a model instance: its declared columns and their data
    db,         \* the backend behind the instance: dialect, the live table's columns and rows
    log,        \* the statements the latest operation sent to the backend, in order
    out,        \* the latest operation on the instance and how it ended
    col,        \* the latest type mapping or column construction: its arguments and how it ended
    sch,        \* the latest get_schema_on_create call: the declared columns and how it ended
    thr,        \* QueryCache used from several threads: the dict entry of one key, the clock, each thread's position inside get / set / clear
    ens,        \* several model instances running ensure_table_exists on one table: the table, each instance's position
    qry,        \* one class-level query of the PostgreSQL backend: the connection of the instance that ran it, the instance its local name is bound to
    shr         \* the process-wide cache used by several wrapped functions and instances: its entries, who stored each, the clock, the call under way

cacheVars == <<cache, now, lastSet, lastRun, ret, callers>>

connVars == <<inst, conn, failsLeft, task>>

txVars == <<table, scope>>

scopeVars == <<txn>>

modelVars == <<mdl, db, log, out>>

typeVars == <<col>>

schemaVars == <<sch>>

threadVars == <<thr>>

ensureVars == <<ens>>

classVars == <<qry>>

shareVars == <<shr>>

notCacheVars == <<connVars, txVars, scopeVars, modelVars, typeVars, schemaVars, threadVars, ensureVars, classVars, shareVars>>

notConnVars == <<cacheVars, txVars, scopeVars, modelVars, typeVars, schemaVars, threadVars, ensureVars, classVars, shareVars>>

notTxVars == <<cacheVars, connVars, scopeVars, modelVars, typeVars, schemaVars, threadVars, ensureVars, classVars, shareVars>>

notScopeVars == <<cacheVars, connVars, txVars, modelVars, typeVars, schemaVars, threadVars, ensureVars, classVars, shareVars>>

notModelVars == <<cacheVars, connVars, txVars, scopeVars, typeVars, schemaVars, threadVars, ensureVars, classVars, shareVars>>

notTypeVars == <<cacheVars, connVars, txVars, scopeVars, modelVars, schemaVars, threadVars, ensureVars, classVars, shareVars>>

notSchemaVars == <<cacheVars, connVars, txVars, scopeVars, modelVars, typeVars, threadVars, ensureVars, classVars, shareVars>>

notThreadVars == <<cacheVars, connVars, txVars, scopeVars, modelVars, typeVars, schemaVars, ensureVars, classVars, shareVars>>

notEnsureVars == <<cacheVars, connVars, txVars, scopeVars, modelVars, typeVars, schemaVars, threadVars, classVars, shareVars>>

notClassVars == <<cacheVars, connVars, txVars, scopeVars, modelVars, typeVars, schemaVars, threadVars, ensureVars, shareVars>>

notShareVars == <<cacheVars, connVars, txVars, scopeVars, modelVars, typeVars, schemaVars, threadVars, ensureVars, classVars>>

vars == <<cache, now, lastSet, lastRun, ret, callers, inst, conn, failsLeft, task, table, scope,
          txn, mdl, db, log, out, col, sch, thr, ens, qry, shr>>

---------------------------------------------------------------------------
(* Bounds and inputs                                                       *)

MaxTime == 65

TickSteps == {29, 30, 31}

CallTickSteps == {30}

Callers == {"c1"}

None == "None"

(* Results the underlying function (a backend round trip) can produce.     *)
Results == {None, "r1", "r2"}

---------------------------------------------------------------------------
(* Python values handed to the wrapper as positional arguments             *)

Str(s) == [kind |-> "str", chars |-> s]

DictConfig == [kind |-> "dict", chars |-> <<>>]

(* " Select 1\n": a SELECT only once trimmed and lower-cased              *)
QSelect == <<" ", "S", "e", "l", "e", "c", "t", " ", "1", "\n">>

QInsert == <<"I", "N", "S", "E", "R", "T">>

Queries == {QSelect, QInsert}

DbPath == <<"a", ".", "d", "b">>

TableName == <<"t">>

ArgTuples == {<<>>, <<Str(<<"1">>)>>}

---------------------------------------------------------------------------
(* str.strip(), str.lower(), str.startswith()                              *)

Whitespace == {" ", "\t", "\n", "\r"}

UpperLetters == <<"A", "B", "C", "D", "E", "F", "G", "H", "I", "J", "K", "L", "M",
                  "N", "O", "P", "Q", "R", "S", "T", "U", "V", "W", "X", "Y", "Z">>

LowerLetters == <<"a", "b", "c", "d", "e", "f", "g", "h", "i", "j", "k", "l", "m",
                  "n", "o", "p", "q", "r", "s", "t", "u", "v", "w", "x", "y", "z">>

RECURSIVE LStrip(_)
LStrip(s) ==
    IF s # <<>> /\ Head(s) \in Whitespace THEN LStrip(Tail(s)) ELSE s

RECURSIVE RStrip(_)
RStrip(s) ==
    IF s # <<>> /\ s[Len(s)] \in Whitespace THEN RStrip(SubSeq(s, 1, Len(s) - 1)) ELSE s

Strip(s) == RStrip(LStrip(s))

LowerChar(c) ==
    IF \E i \in 1..Len(UpperLetters) : UpperLetters[i] = c
    THEN LowerLetters[CHOOSE i \in 1..Len(UpperLetters) : UpperLetters[i] = c]
    ELSE c

Lower(s) == [i \in 1..Len(s) |-> LowerChar(s[i])]

StartsWith(s, p) == Len(s) >= Len(p) /\ SubSeq(s, 1, Len(p)) = p

SelectPrefix == <<"s", "e", "l", "e", "c", "t">>

IsSelect_Always(q) == TRUE

(* wrapper: query.strip().lower().startswith('select')                     *)
IsSelect(q) == StartsWith(Lower(Strip(q)), SelectPrefix)

---------------------------------------------------------------------------
(* Connection life cycle: AsyncPGBaseClass and AsyncMySQLClass             *)

DefaultMaxRetries == 5

DefaultRetryDelay == 2

MaxRetries == 3

MaxFails == 6

(* The connect function always fails: a count no sequence of attempts      *)
(* uses up.                                                                *)
Always == MaxFails + 1

(* max_retries as the caller may configure it; AsyncMySQLClass takes no    *)
(* such argument and never reads it.                                       *)
RetryConfigs == (0..MaxRetries) \cup {DefaultMaxRetries}

Modes == {"none", "fetch_one", "fetch_all"}

IdleTask == [pc |-> "idle", op |-> "none", mode |-> "none", attempt |-> 0, attempts |-> 0,
             slept |-> 0, startFails |-> 0, startConn |-> "none", sends |-> 0,
             transportErrors |-> 0, outcome |-> "none", cause |-> "none"]

(* The instance and the driver at rest, for the specifications that do not *)
(* use them.                                                               *)
ConnQuiet ==
    /\ inst = [backend |-> "postgre", max_retries |-> DefaultMaxRetries,
               retry_delay |-> DefaultRetryDelay]
    /\ conn = "none"
    /\ failsLeft = 0
    /\ task = IdleTask

ConnInit ==
    /\ inst \in [backend : {"postgre", "mysql"}, max_retries : RetryConfigs,
                  retry_delay : {DefaultRetryDelay}]
    /\ conn = "none"
    /\ failsLeft \in (0..MaxFails) \cup {Always}
    /\ task = IdleTask

(* if self.conn is None or self.conn.is_closed()                           *)
NeedsConnect == conn # "open"

(* Whether the connect loop has a first iteration: range(self.max_retries) *)
(* for PostgreSQL, the single call for MySQL.                              *)
HasAttempt(i) == i.backend = "mysql" \/ i.max_retries > 0

LastAttempt_First(i, attempt) == TRUE

(* Whether a failed attempt is re-raised: attempt == self.max_retries - 1  *)
(* for PostgreSQL; MySQL has no loop.                                      *)
LastAttempt(i, attempt) == i.backend = "mysql" \/ attempt = i.max_retries - 1

(* Entering _connect, from a direct call or from _execute.                 *)
EnterConnect(t) ==
    IF NeedsConnect /\ HasAttempt(inst)
    THEN [t EXCEPT !.pc = "attempting", !.attempt = 0]
    ELSE \* nothing to do, or an empty loop: _connect returns
         IF t.op = "connect" THEN [t EXCEPT !.pc = "done", !.outcome = "ok"]
         ELSE [t EXCEPT !.pc = "sending"]

(* await model._connect()                                                  *)
Connect ==
    /\ task.pc \in {"idle", "done"}
    /\ task' = EnterConnect([IdleTask EXCEPT !.op = "connect", !.startFails = failsLeft,
                                             !.startConn = conn])
    /\ UNCHANGED <<inst, conn, failsLeft>>
    /\ UNCHANGED notConnVars

(* One call of asyncpg.connect / aiomysql.connect.                         *)
Attempt ==
    /\ task.pc = "attempting"
    /\ IF failsLeft = 0
       THEN /\ conn' = "open"
            /\ task' = IF task.op = "connect"
                       THEN [task EXCEPT !.pc = "done", !.outcome = "ok",
                                         !.attempts = @ + 1]
                       ELSE [task EXCEPT !.pc = "sending", !.attempts = @ + 1]
            /\ UNCHANGED failsLeft
       ELSE /\ failsLeft' = IF failsLeft = Always THEN Always ELSE failsLeft - 1
            /\ task' = IF LastAttempt(inst, task.attempt)
                       THEN [task EXCEPT !.pc = "done", !.outcome = "error",
                                         !.cause = "connect", !.attempts = @ + 1]
                       ELSE [task EXCEPT !.pc = "sleeping", !.attempts = @ + 1]
            /\ UNCHANGED conn
    /\ UNCHANGED inst
    /\ UNCHANGED notConnVars

(* await asyncio.sleep(self.retry_delay), then the next iteration          *)
Sleep ==
    /\ task.pc = "sleeping"
    /\ task' = [task EXCEPT !.pc = "attempting", !.attempt = @ + 1,
                            !.slept = @ + inst.retry_delay]
    /\ UNCHANGED <<inst, conn, failsLeft>>
    /\ UNCHANGED notConnVars

(* await model._execute(query, params, fetch_one, fetch_all)               *)
Execute(mode) ==
    /\ task.pc \in {"idle", "done"}
    /\ task' = EnterConnect([IdleTask EXCEPT !.op = "execute", !.mode = mode,
                                             !.startFails = failsLeft, !.startConn = conn])
    /\ UNCHANGED <<inst, conn, failsLeft>>
    /\ UNCHANGED notConnVars

(* How many times _execute hands the statement to the driver: PostgreSQL   *)
(* runs conn.execute and then conn.fetchrow / conn.fetch in the fetch      *)
(* modes, MySQL runs cur.execute once.                                     *)
SendsNeeded(i, mode) == IF i.backend = "postgre" /\ mode # "none" THEN 2 ELSE 1

(* The handle after _execute met an exception: PostgreSQL's except branch  *)
(* calls _close; MySQL has no handler, the driver may or may not have      *)
(* closed a broken connection.                                             *)
HandleAfterError(i, c, kind) ==
    IF i.backend = "postgre" THEN {IF c = "open" THEN "closed" ELSE c}
    ELSE IF kind = "transport" THEN {"open", "closed"} ELSE {c}

(* The statement goes to the driver: it succeeds, meets a transport error, *)
(* or meets an SQL error.  Without a live handle the call itself raises.   *)
Send(kind) ==
    /\ task.pc = "sending"
    /\ IF conn # "open"
       THEN /\ kind = "nohandle"
            /\ task' = [task EXCEPT !.pc = "done", !.outcome = "error", !.cause = "nohandle"]
            /\ UNCHANGED conn
       ELSE \/ /\ kind = "ok"
               /\ task' = IF task.sends + 1 = SendsNeeded(inst, task.mode)
                          THEN [task EXCEPT !.pc = "done", !.outcome = "ok", !.sends = @ + 1]
                          ELSE [task EXCEPT !.sends = @ + 1]
               /\ UNCHANGED conn
            \/ /\ kind \in {"transport", "sql"}
               /\ task' = [task EXCEPT !.pc = "done", !.outcome = "error", !.cause = kind,
                                       !.sends = @ + 1,
                                       !.transportErrors = IF kind = "transport" THEN @ + 1 ELSE @]
               /\ conn' \in HandleAfterError(inst, conn, kind)
    /\ UNCHANGED <<inst, failsLeft>>
    /\ UNCHANGED notConnVars

(* await model._close()                                                    *)
Close ==
    /\ task.pc \in {"idle", "done"}
    /\ conn' = IF conn = "open" THEN "closed" ELSE conn
    /\ task' = [IdleTask EXCEPT !.pc = "done", !.op = "close", !.outcome = "ok",
                                !.startConn = conn]
    /\ UNCHANGED <<inst, failsLeft>>
    /\ UNCHANGED notConnVars

ConnNext ==
    \/ Connect
    \/ Attempt
    \/ Sleep
    \/ \E m \in Modes : Execute(m)
    \/ \E k \in {"ok", "transport", "sql", "nohandle"} : Send(k)
    \/ Close

---------------------------------------------------------------------------
(* QueryCache                                                              *)

DefaultTtl == 60

(* cache = QueryCache(): the one process-wide instance, built with the     *)
(* default ttl.                                                            *)
CacheTtl == DefaultTtl

EmptyCache == [k \in {} |-> [value |-> None, timestamp |-> 0]]

(* params = tuple(args) if args else None                                  *)
MakeParams(args) ==
    IF args = <<>> THEN [none |-> TRUE, items |-> <<>>]
    ELSE [none |-> FALSE, items |-> args]

MakeKey(query, params) == <<query, params>>

Remove(cch, key) == [k \in DOMAIN cch \ {key} |-> cch[k]]

CacheGet_Inclusive(cch, key, t) ==
    IF key \in DOMAIN cch /\ t - cch[key].timestamp <= CacheTtl
    THEN [value |-> cch[key].value, cache |-> cch]
    ELSE [value |-> None, cache |-> Remove(cch, key)]

CacheGet_NeverHits(cch, key, t) == [value |-> None, cache |-> Remove(cch, key)]

(* QueryCache.get: the value and the mapping it leaves behind.             *)
CacheGet(cch, key, t) ==
    IF key \in DOMAIN cch /\ t - cch[key].timestamp < CacheTtl
    THEN [value |-> cch[key].value, cache |-> cch]
    ELSE [value |-> None, cache |-> Remove(cch, key)]

CacheSet_KeepFirst(cch, key, v, t) ==
    [k \in DOMAIN cch \cup {key} |->
        IF k \in DOMAIN cch THEN cch[k] ELSE [value |-> v, timestamp |-> t]]

(* QueryCache.set                                                          *)
CacheSet(cch, key, v, t) ==
    [k \in DOMAIN cch \cup {key} |->
        IF k = key THEN [value |-> v, timestamp |-> t] ELSE cch[k]]

CacheClear_ExpiredOnly(cch, t) ==
    [k \in {j \in DOMAIN cch : t - cch[j].timestamp < CacheTtl} |-> cch[k]]

(* QueryCache.clear                                                        *)
CacheClear(cch, t) == EmptyCache

(* Keys of the direct calls.                                               *)
ApiKeys == {MakeKey(Str(QSelect), MakeParams(a)) : a \in ArgTuples}

NoRet == [op |-> "none", key |-> MakeKey(Str(<<>>), MakeParams(<<>>)), value |-> None,
          stored |-> FALSE, storedValue |-> None, age |-> 0, present |-> FALSE,
          cleared |-> FALSE]

(* The history entry of a key: whether a set happened since the latest     *)
(* clear, and how long ago.                                                *)
Stored(key) == key \in DOMAIN lastSet

AgeOf(key) == IF Stored(key) THEN now - lastSet[key].timestamp ELSE 0

(* The decorator's argument: cache_query(ttl=1) on the tests' Dummy.select, *)
(* cache_query() with the default on the backends' execute_query.          *)
DecoratorTtl(fn) == IF fn = "select" THEN 1 ELSE 60

Backends == {"sqlite", "postgre", "mysql"}

(* db_config: a path string for SQLite, a dict for PostgreSQL and MySQL.   *)
DbConfig(b) == IF b = "sqlite" THEN Str(DbPath) ELSE DictConfig

(* What the underlying function can return: execute_query always returns   *)
(* a list, a user function may return None.                                *)
FnResults(fn) == IF fn = "select" THEN Results ELSE {"r1"}

(* The SQL text a call hands to the underlying function: its first         *)
(* argument for Dummy.select, its third for execute_query.                 *)
Statement(fn, pos) == IF fn = "select" THEN pos[1] ELSE pos[3]

Signature(fn, pos) == <<fn, pos>>

Ran(sig) == sig \in DOMAIN lastRun

IdleCaller == [pc |-> "idle", fn |-> "none", pos |-> <<>>, bypass |-> FALSE,
               executed |-> FALSE, result |-> None, served |-> FALSE, servedAge |-> 0,
               stored |-> FALSE, ran |-> FALSE, ranValue |-> None, ranAge |-> 0]

CacheInit ==
    /\ cache = EmptyCache
    /\ now = 0
    /\ lastSet = EmptyCache
    /\ lastRun = EmptyCache
    /\ ret = NoRet
    /\ callers = [c \in Callers |-> IdleCaller]

(* time passes                                                             *)
Tick(d) ==
    /\ now + d <= MaxTime
    /\ now' = now + d
    /\ UNCHANGED <<cache, lastSet, lastRun, ret, callers>>
    /\ UNCHANGED notCacheVars

(* a direct cache.get(query, params)                                       *)
ApiGet(key) ==
    LET r == CacheGet(cache, key, now) IN
    /\ cache' = r.cache
    /\ ret' = [NoRet EXCEPT !.op = "get", !.key = key, !.value = r.value,
                            !.stored = Stored(key),
                            !.storedValue = IF Stored(key) THEN lastSet[key].value ELSE None,
                            !.age = AgeOf(key),
                            !.present = key \in DOMAIN r.cache]
    /\ UNCHANGED <<now, lastSet, lastRun, callers>>
    /\ UNCHANGED notCacheVars

(* a direct cache.set(query, params, value)                                *)
ApiSet(key, v) ==
    /\ cache' = CacheSet(cache, key, v, now)
    /\ lastSet' = CacheSet(lastSet, key, v, now)
    /\ ret' = [NoRet EXCEPT !.op = "set", !.key = key, !.value = v]
    /\ UNCHANGED <<now, lastRun, callers>>
    /\ UNCHANGED notCacheVars

(* cache.clear()                                                           *)
Clear ==
    /\ cache' = CacheClear(cache, now)
    /\ lastSet' = EmptyCache
    /\ lastRun' = EmptyCache
    /\ ret' = [NoRet EXCEPT !.op = "clear", !.cleared = (DOMAIN cache # {})]
    /\ UNCHANGED <<now, callers>>
    /\ UNCHANGED notCacheVars

CacheNext ==
    \/ \E d \in TickSteps : Tick(d)
    \/ \E k \in ApiKeys : ApiGet(k)
    \/ \E k \in ApiKeys, v \in Results : ApiSet(k, v)
    \/ Clear

---------------------------------------------------------------------------
(* cache_query: wrapper(self, query, *args, **kwargs)                      *)

WrapperKey(pos) == MakeKey(Head(pos), MakeParams(Tail(pos)))

(* The wrapper up to its first await: the prefix test, the lookup, and the *)
(* return of a hit.  pos are the positional arguments after self.          *)
WrapperStart(c, fn, pos) ==
    LET query == Head(pos)
        key == WrapperKey(pos)
        sig == Signature(fn, pos)
        call == [IdleCaller EXCEPT !.fn = fn, !.pos = pos,
                                   !.ran = Ran(sig),
                                   !.ranValue = IF Ran(sig) THEN lastRun[sig].value ELSE None,
                                   !.ranAge = IF Ran(sig) THEN now - lastRun[sig].timestamp ELSE 0]
    IN
    /\ callers[c].pc # "awaiting"
    /\ IF query.kind # "str"
       THEN \* query.strip: AttributeError, nothing else runs
            /\ callers' = [callers EXCEPT ![c] = [call EXCEPT !.pc = "raised"]]
            /\ UNCHANGED cache
       ELSE IF ~IsSelect(query.chars)
       THEN /\ callers' = [callers EXCEPT ![c] =
                              [call EXCEPT !.pc = "awaiting", !.bypass = TRUE]]
            /\ UNCHANGED cache
       ELSE LET r == CacheGet(cache, key, now)
                seen == [call EXCEPT !.stored = Stored(key)]
            IN
            /\ cache' = r.cache
            /\ callers' = [callers EXCEPT ![c] =
                   IF r.value # None
                   THEN [seen EXCEPT !.pc = "returned", !.result = r.value, !.served = TRUE,
                                     !.servedAge = now - cache[key].timestamp]
                   ELSE [seen EXCEPT !.pc = "awaiting"]]
    /\ UNCHANGED <<now, lastSet, lastRun, ret>>
    /\ UNCHANGED notCacheVars

(* The awaited function returns v; a SELECT call stores it.                *)
WrapperFinish(c, v) ==
    LET key == WrapperKey(callers[c].pos)
        sig == Signature(callers[c].fn, callers[c].pos)
    IN
    /\ callers[c].pc = "awaiting"
    /\ v \in FnResults(callers[c].fn)
    /\ callers' = [callers EXCEPT ![c].pc = "returned", ![c].executed = TRUE,
                                  ![c].result = v]
    /\ IF callers[c].bypass
       THEN UNCHANGED <<cache, lastSet>>
       ELSE /\ cache' = CacheSet(cache, key, v, now)
            /\ lastSet' = CacheSet(lastSet, key, v, now)
    /\ IF Statement(callers[c].fn, callers[c].pos) = Str(QSelect)
       THEN lastRun' = CacheSet(lastRun, sig, v, now)
       ELSE UNCHANGED lastRun
    /\ UNCHANGED <<now, ret>>
    /\ UNCHANGED notCacheVars

(* d.select(query, *args) on a user class, as in the tests' Dummy          *)
CallSelect(c, q, args) == WrapperStart(c, "select", <<Str(q)>> \o args)

(* Backend.execute_query(db_config, table, query): a classmethod over the  *)
(* wrapper, so cls is self and the three arguments are positional.         *)
ExecuteQuery(c, b, q) == WrapperStart(c, b, <<DbConfig(b), Str(TableName), Str(q)>>)

WrapperNext ==
    \/ \E d \in CallTickSteps : Tick(d)
    \/ Clear
    \/ \E c \in Callers, q \in Queries, a \in ArgTuples : CallSelect(c, q, a)
    \/ \E c \in Callers, b \in Backends, q \in Queries : ExecuteQuery(c, b, q)
    \/ \E c \in Callers, v \in Results : WrapperFinish(c, v)

---------------------------------------------------------------------------
(* SQLite: save() and the transaction scope of AsyncSQLiteClass            *)

MaxRows == 3

Values == {"commit", "rollback"}

(* The primary key column of the instance: data is None, or a rowid.       *)
NoPk == <<>>

PkChoices == {NoPk} \cup {<<i>> : i \in 1..MaxRows}

NoScope == [pc |-> "out", conn |-> "none", pending |-> <<>>, before |-> <<>>,
            saved |-> <<>>, after |-> <<>>, exit |-> "none"]

TxInit ==
    /\ table = <<>>
    /\ scope = NoScope

(* save(): INSERT when the primary key's data is None, else UPDATE ...     *)
(* WHERE id = ?, which changes nothing when no row has that id.            *)
Write(tbl, pk, v) ==
    IF pk = NoPk THEN Append(tbl, v)
    ELSE IF pk[1] \in DOMAIN tbl THEN [tbl EXCEPT ![pk[1]] = v]
    ELSE tbl

(* The committed table once a connection commits its pending statements.   *)
RECURSIVE Commit(_, _)
Commit(tbl, pending) ==
    IF pending = <<>> THEN tbl
    ELSE Commit(Write(tbl, Head(pending).pk, Head(pending).v), Tail(pending))

(* _execute: a connection of its own, the statement, commit, close.        *)
SqliteExecute(tbl, pk, v) == Commit(tbl, <<[pk |-> pk, v |-> v]>>)

(* The rowid save() writes, 0 when the UPDATE matches no row.              *)
WrittenId(tbl, pk) ==
    IF pk = NoPk THEN Len(tbl) + 1
    ELSE IF pk[1] \in DOMAIN tbl THEN pk[1]
    ELSE 0

(* The saves made inside the scope: rowid -> value, up to MaxRows rows.     *)
Record(saved, id, v) ==
    [i \in 1..MaxRows |-> IF i = id THEN <<v>>
                          ELSE IF i \in DOMAIN saved THEN saved[i] ELSE <<>>]

(* async with model.transaction(): a connection of the scope's own, BEGIN  *)
Begin ==
    /\ scope.pc \in {"out", "exited"}
    /\ scope' = [NoScope EXCEPT !.pc = "in", !.conn = "open", !.before = table]
    /\ UNCHANGED table
    /\ UNCHANGED notTxVars

(* await model.save(), inside or outside the scope: it goes through        *)
(* _execute and so through a connection that is not the scope's.           *)
Save(pk, v) ==
    /\ pk = NoPk => Len(table) < MaxRows
    /\ table' = SqliteExecute(table, pk, v)
    /\ scope' = IF scope.pc = "in" /\ WrittenId(table, pk) # 0
                THEN [scope EXCEPT !.saved = Record(@, WrittenId(table, pk), v)]
                ELSE scope
    /\ UNCHANGED notTxVars

(* The block ends normally: conn.commit(), then conn.close().              *)
ExitNormally ==
    /\ scope.pc = "in"
    /\ table' = Commit(table, scope.pending)
    /\ scope' = [scope EXCEPT !.pc = "exited", !.conn = "closed", !.pending = <<>>,
                              !.after = Commit(table, scope.pending), !.exit = "commit"]
    /\ UNCHANGED notTxVars

(* The block raises: conn.rollback(), re-raise, conn.close().              *)
ExitByException ==
    /\ scope.pc = "in"
    /\ scope' = [scope EXCEPT !.pc = "exited", !.conn = "closed", !.pending = <<>>,
                              !.after = table, !.exit = "rollback"]
    /\ UNCHANGED table
    /\ UNCHANGED notTxVars

TxNext ==
    \/ Begin
    \/ \E pk \in PkChoices, v \in Values : Save(pk, v)
    \/ ExitNormally
    \/ ExitByException

---------------------------------------------------------------------------
(* transaction(): the scope's life cycle on each backend                   *)

MaxScopes == 2

(* How the body of the `async with` block ends: it returns, it raises an   *)
(* Exception, or the task is cancelled (CancelledError, a BaseException).  *)
BodyEnds == {"normal", "exception", "cancel"}

NoTxn == [pc |-> "out", backend |-> "sqlite", handle |-> "none", acquired |-> FALSE,
          open |-> FALSE, body |-> "none", commits |-> 0, rollbacks |-> 0,
          failed |-> "none", runs |-> 0]

ScopeInit == txn = NoTxn

(* The handle the scope works on: SQLite connects anew, MySQL and          *)
(* PostgreSQL use the instance's handle and connect when it is not open.   *)
ScopeHandles(b) == IF b = "sqlite" THEN {"none"} ELSE {"none", "open", "closed"}

(* `async with model.transaction()` is entered.  SQLite and MySQL are      *)
(* asynccontextmanager generators; PostgreSQL's transaction() is a         *)
(* coroutine, which is no context manager unless the caller awaits it.     *)
Enter(b, h, awaited) ==
    /\ txn.pc \in {"out", "exited"}
    /\ txn.runs < MaxScopes
    /\ b # "postgre" => awaited
    /\ txn' = IF b = "postgre" /\ ~awaited
              THEN [NoTxn EXCEPT !.pc = "exited", !.backend = b, !.handle = h,
                                 !.failed = "enter", !.runs = txn.runs + 1]
              ELSE [NoTxn EXCEPT !.pc = "begin", !.backend = b, !.handle = "open",
                                 !.acquired = (h # "open"), !.runs = txn.runs + 1]
    /\ UNCHANGED notScopeVars

(* conn.execute('BEGIN') / conn.begin() / Transaction.start()              *)
BeginScope(ok) ==
    /\ txn.pc = "begin"
    /\ txn' = IF ok THEN [txn EXCEPT !.pc = "body", !.open = TRUE]
              ELSE IF txn.backend = "postgre"
                   THEN [txn EXCEPT !.pc = "exited", !.failed = "begin"]
                   ELSE [txn EXCEPT !.pc = "except", !.failed = "begin"]
    /\ UNCHANGED notScopeVars

(* Where the generator goes when the body ends: past the yield to commit,  *)
(* into `except Exception`, or, for a BaseException, straight to finally.  *)
(* The PostgreSQL driver commits when the body raised nothing and rolls    *)
(* back otherwise.                                                         *)
AfterBody(b, e) ==
    IF e = "normal" THEN "commit"
    ELSE IF b = "postgre" \/ e = "exception" THEN "except"
    ELSE "finally"

Body(e) ==
    /\ txn.pc = "body"
    /\ txn' = [txn EXCEPT !.pc = AfterBody(txn.backend, e), !.body = e]
    /\ UNCHANGED notScopeVars

(* await conn.commit(): a failure is an Exception raised inside the try.   *)
CommitScope(ok) ==
    /\ txn.pc = "commit"
    /\ \E o \in (IF ok THEN {FALSE} ELSE {FALSE, TRUE}) :
          txn' = IF ok THEN [txn EXCEPT !.pc = "finally", !.commits = @ + 1, !.open = FALSE]
                 ELSE IF txn.backend = "postgre"
                      THEN [txn EXCEPT !.pc = "finally", !.commits = @ + 1, !.open = o,
                                       !.failed = "commit"]
                      ELSE [txn EXCEPT !.pc = "except", !.commits = @ + 1, !.open = o,
                                       !.failed = "commit"]
    /\ UNCHANGED notScopeVars

(* except Exception: await conn.rollback(); raise                          *)
RollbackScope(ok) ==
    /\ txn.pc = "except"
    /\ txn' = [txn EXCEPT !.pc = "finally", !.rollbacks = @ + 1,
                          !.open = IF ok THEN FALSE ELSE @,
                          !.failed = IF ok THEN @ ELSE "rollback"]
    /\ UNCHANGED notScopeVars

(* finally: await conn.close() / conn.ensure_closed(), which also ends a   *)
(* transaction still open on that connection.  PostgreSQL's transaction()  *)
(* has no finally: the handle stays as it is.                              *)
Finally ==
    /\ txn.pc = "finally"
    /\ txn' = IF txn.backend = "postgre"
              THEN [txn EXCEPT !.pc = "exited"]
              ELSE [txn EXCEPT !.pc = "exited", !.handle = "closed", !.open = FALSE]
    /\ UNCHANGED notScopeVars

ScopeNext ==
    \/ \E b \in Backends, awaited \in BOOLEAN : \E h \in ScopeHandles(b) : Enter(b, h, awaited)
    \/ \E ok \in BOOLEAN : BeginScope(ok)
    \/ \E e \in BodyEnds : Body(e)
    \/ \E ok \in BOOLEAN : CommitScope(ok)
    \/ \E ok \in BOOLEAN : RollbackScope(ok)
    \/ Finally

---------------------------------------------------------------------------
(* Model instances: declared columns, the live table, schema sync          *)

(* Python and SQL values: None / NULL, a string, an integer.                *)
PyNone == [kind |-> "none", s |-> "", n |-> 0]

PyStr(str) == [kind |-> "str", s |-> str, n |-> 0]

PyInt(i) == [kind |-> "int", s |-> "", n |-> i]

(* ColumnModel(data=None, row_name, data_type, primary_key)                *)
Col(n, t, pk) == [row_name |-> n, data_type |-> t, primary_key |-> pk, data |-> PyNone]

(* The column lists a model class may declare, in declaration order.       *)
Decls ==
    { <<Col("id", "INTEGER", TRUE), Col("name", "TEXT", FALSE)>>,
      <<Col("name", "TEXT", FALSE)>>,
      <<Col("id", "INTEGER", TRUE), Col("name", "TEXT", FALSE), Col("extra", "BLOB", FALSE)>>,
      <<Col("id", "INTEGER", TRUE), Col("name", "INTEGER", FALSE)>>,
      <<>> }

LiveCol(n, t, pk) == [name |-> n, type |-> t, pk |-> pk]

(* The table as the backend may hold it before the instance first touches  *)
(* it: absent, or with the key column only, which not every model          *)
(* declares.                                                               *)
LiveLayouts ==
    { <<LiveCol("id", "INTEGER", TRUE)>> }

NoTable(b) == [backend |-> b, exists |-> FALSE, cols |-> <<>>, rows |-> <<>>, seq |-> 0,
               migrations |-> 0]

LiveTable(b, layout) == [NoTable(b) EXCEPT !.exists = TRUE, !.cols = layout]

NewInstance(b, d) == [backend |-> b, cols |-> d]

NoSave == [id |-> PyNone, model |-> NewInstance("sqlite", <<>>), clean |-> FALSE]

(* The latest call: what it was given and how it ended; lastSave remembers *)
(* the latest inserting save and whether the table has changed since.      *)
NoOut == [op |-> "none", outcome |-> "none", raised |-> "none", value |-> PyNone,
          rows |-> 0, arg |-> PyNone, conditions |-> 0, lastSave |-> NoSave]

ModelInit ==
    /\ \E b \in Backends :
          /\ db \in {NoTable(b)} \cup {LiveTable(b, l) : l \in LiveLayouts}
          /\ mdl \in {NewInstance(b, d) : d \in Decls}
    /\ log = <<>>
    /\ out = NoOut

ModelQuiet ==
    /\ mdl = NewInstance("sqlite", <<>>)
    /\ db = NoTable("sqlite")
    /\ log = <<>>
    /\ out = NoOut

Range(f) == {f[i] : i \in DOMAIN f}

DeclNames(m) == {c.row_name : c \in Range(m.cols)}

LiveNames(d) == {c.name : c \in Range(d.cols)}

LiveType(d, n) == (CHOOSE c \in Range(d.cols) : c.name = n).type

(* A statement handed to the driver, or a migration file written.          *)
Stmt(kind, names, params) == [kind |-> kind, cols |-> names, params |-> params, where |-> <<>>]

(* The statement as often as the backend's _execute sends it in a mode.    *)
Sent(b, mode, stmt) ==
    IF SendsNeeded([backend |-> b], mode) = 2 THEN <<stmt, stmt>> ELSE <<stmt>>

(* get_schema_on_create and its execution: one column per declared column. *)
CreateTable(d, cols) ==
    [d EXCEPT !.exists = TRUE,
              !.cols = [i \in DOMAIN cols |-> LiveCol(cols[i].row_name, cols[i].data_type,
                                                      cols[i].primary_key)],
              !.rows = <<>>]

(* ALTER TABLE ... ADD COLUMN: the column goes last, NULL in every row.    *)
AddColumn(d, c) ==
    [d EXCEPT !.cols = Append(@, LiveCol(c.row_name, c.data_type, FALSE)),
              !.rows = [i \in DOMAIN @ |-> Append(@[i], PyNone)]]

RECURSIVE AddColumns(_, _)
AddColumns(d, cols) ==
    IF cols = <<>> THEN d ELSE AddColumns(AddColumn(d, Head(cols)), Tail(cols))

MissingColumns_All(m, d) == m.cols

(* for column in expected: if column.row_name not in current_schema        *)
MissingColumns(m, d) == SelectSeq(m.cols, LAMBDA c : c.row_name \notin LiveNames(d))

AlterStmts(cols) == [i \in DOMAIN cols |-> Stmt("ALTER", <<cols[i].row_name>>, <<>>)]

(* The existence check: through _execute(fetch_one=True) on PostgreSQL,    *)
(* on the connection itself on SQLite and MySQL.                           *)
ExistsCheck(b) ==
    Sent(b, IF b = "postgre" THEN "fetch_one" ELSE "none", Stmt("SELECT", <<>>, <<>>))

SchemaQuery(b) ==
    Sent(b, IF b = "postgre" THEN "fetch_all" ELSE "none", Stmt("SELECT", <<>>, <<>>))

(* _get_db_type: "sqlite" when db_config is a str, "postgre" otherwise;     *)
(* the MySQL db_config is a dict.                                          *)
GetDbType(b) == IF b = "sqlite" THEN "sqlite" ELSE "postgre"

(* create_migration_file(schema): the file written, by its directory.      *)
MigrationFile(m) == Stmt("MIGRATION", <<"./migrations_" \o GetDbType(m.backend)>>, <<>>)

EnsureTable_FileOnFailure(m, d) ==
    IF ~d.exists
    THEN [db |-> [d EXCEPT !.migrations = @ + 1],
          log |-> ExistsCheck(m.backend) \o <<Stmt("CREATE", <<>>, <<>>), MigrationFile(m)>>,
          ok |-> FALSE]
    ELSE [db |-> d, log |-> ExistsCheck(m.backend) \o SchemaQuery(m.backend), ok |-> TRUE]

EnsureTable_Recreate(m, d) ==
    [db |-> [CreateTable(d, m.cols) EXCEPT !.migrations = @ + 1],
     log |-> <<Stmt("CREATE", [i \in DOMAIN m.cols |-> m.cols[i].row_name], <<>>),
               MigrationFile(m)>>,
     ok |-> TRUE]

(* ensure_table_exists: [db, log, ok] after the call.  A CREATE TABLE with *)
(* no column is an SQL error; a declared name that repeats a live one is   *)
(* never added.                                                            *)
EnsureTable(m, d) ==
    IF ~d.exists
    THEN IF m.cols = <<>>
         THEN [db |-> d, log |-> ExistsCheck(m.backend) \o <<Stmt("CREATE", <<>>, <<>>)>>,
               ok |-> FALSE]
         ELSE [db |-> [CreateTable(d, m.cols) EXCEPT !.migrations = @ + 1],
               log |-> ExistsCheck(m.backend)
                       \o <<Stmt("CREATE", [i \in DOMAIN m.cols |-> m.cols[i].row_name], <<>>),
                            MigrationFile(m)>>,
               ok |-> TRUE]
    ELSE [db |-> AddColumns(d, MissingColumns(m, d)),
          log |-> ExistsCheck(m.backend) \o SchemaQuery(m.backend)
                  \o AlterStmts(MissingColumns(m, d)),
          ok |-> TRUE]

Outcome(ok) == IF ok THEN "ok" ELSE "error"

---------------------------------------------------------------------------
(* The backend's side of INSERT, UPDATE, DELETE and SELECT                 *)

MaxModelRows == 1

MaxSeq == 1

Max(S) == CHOOSE x \in S : \A y \in S : y <= x

(* The live primary-key column's position, 0 without one.                  *)
PkIndex(d) ==
    IF \E i \in DOMAIN d.cols : d.cols[i].pk
    THEN CHOOSE i \in DOMAIN d.cols : d.cols[i].pk
    ELSE 0

ColIndex(d, n) == CHOOSE i \in DOMAIN d.cols : d.cols[i].name = n

Given(names, n) == \E i \in DOMAIN names : names[i] = n

ValueOf(names, params, n) ==
    IF Given(names, n) THEN params[CHOOSE i \in DOMAIN names : names[i] = n] ELSE PyNone

(* The identity the backend assigns: SQLite's INTEGER PRIMARY KEY takes    *)
(* the largest rowid + 1, SERIAL and AUTO_INCREMENT take the next of a     *)
(* sequence.                                                               *)
NextId(d) ==
    IF d.backend = "sqlite"
    THEN Max({0} \cup {r[PkIndex(d)].n : r \in Range(d.rows)}) + 1
    ELSE d.seq + 1

(* INSERT INTO t (names) VALUES (params): [db, ok, id].  An unknown column *)
(* or a repeated key is an error; a NULL written into the key column is    *)
(* replaced by the next identity on SQLite and MySQL and violates NOT NULL *)
(* on PostgreSQL.                                                          *)
Insert(d, names, params) ==
    LET k == PkIndex(d)
        pkv == IF k = 0 THEN PyNone ELSE ValueOf(names, params, d.cols[k].name)
        auto == k # 0 /\ pkv = PyNone
        id == IF k = 0
              THEN PyInt(IF d.backend = "sqlite" THEN Len(d.rows) + 1 ELSE 0)
              ELSE IF auto THEN PyInt(NextId(d)) ELSE pkv
        row == [i \in DOMAIN d.cols |->
                   IF i = k THEN id ELSE ValueOf(names, params, d.cols[i].name)]
        bad == \/ ~d.exists
               \/ \E i \in DOMAIN names : names[i] \notin LiveNames(d)
               \/ auto /\ d.backend = "postgre" /\ Given(names, d.cols[k].name)
               \/ k # 0 /\ ~auto /\ \E r \in Range(d.rows) : r[k] = pkv
    IN IF bad THEN [db |-> d, ok |-> FALSE, id |-> PyNone]
       ELSE [db |-> [d EXCEPT !.rows = Append(@, row),
                              !.seq = IF id.n > @ THEN id.n ELSE @],
             ok |-> TRUE, id |-> id]

(* UPDATE t SET names = params WHERE idRow = idData: [db, ok]              *)
Update(d, names, params, idRow, idData) ==
    IF \/ ~d.exists
       \/ idRow \notin LiveNames(d)
       \/ \E i \in DOMAIN names : names[i] \notin LiveNames(d)
    THEN [db |-> d, ok |-> FALSE]
    ELSE [db |-> [d EXCEPT !.rows =
                     [j \in DOMAIN @ |->
                         IF @[j][ColIndex(d, idRow)] = idData
                         THEN [i \in DOMAIN d.cols |->
                                  IF Given(names, d.cols[i].name)
                                  THEN ValueOf(names, params, d.cols[i].name)
                                  ELSE @[j][i]]
                         ELSE @[j]]],
          ok |-> TRUE]

(* DELETE FROM t WHERE idRow = idData: [db, ok]                            *)
DeleteRows(d, idRow, idData) ==
    IF ~d.exists \/ idRow \notin LiveNames(d)
    THEN [db |-> d, ok |-> FALSE]
    ELSE [db |-> [d EXCEPT !.rows =
                     SelectSeq(@, LAMBDA r : r[ColIndex(d, idRow)] # idData)],
          ok |-> TRUE]

(* SELECT * FROM t WHERE keys = values: [rows, ok], the rows in table      *)
(* order; with no condition, SELECT * FROM t.                              *)
SelectRows(d, keys, values) ==
    IF ~d.exists \/ \E i \in DOMAIN keys : keys[i] \notin LiveNames(d)
    THEN [rows |-> <<>>, ok |-> FALSE]
    ELSE [rows |-> SelectSeq(d.rows, LAMBDA r :
                       \A i \in DOMAIN keys : r[ColIndex(d, keys[i])] = values[i]),
          ok |-> TRUE]

---------------------------------------------------------------------------
(* save, load_one, load_one_custom, get_all_by, delete                     *)

PkCols(m) == SelectSeq(m.cols, LAMBDA c : c.primary_key)

(* save(): the loop leaves id_row and id_data at the last primary-key      *)
(* column; <<>> when no column is marked.                                  *)
SaveKey(m) == IF PkCols(m) = <<>> THEN <<>> ELSE <<PkCols(m)[Len(PkCols(m))]>>

(* delete(): next(...) takes the first primary-key column.                 *)
DeleteKey(m) == IF PkCols(m) = <<>> THEN <<>> ELSE <<Head(PkCols(m))>>

(* _prepare_data_for_save: json.dumps for a dict or a list in a BLOB or    *)
(* JSON column; None, strings and integers go as they are.                 *)
PrepareData(c) == c.data

(* rows_name and rows_data: every declared column, in declaration order.   *)
RowsName(m) == [i \in DOMAIN m.cols |-> m.cols[i].row_name]

RowsData(m) == [i \in DOMAIN m.cols |-> PrepareData(m.cols[i])]

IsInsert_Always(m) == TRUE

(* if id_data is None: INSERT, else UPDATE                                 *)
IsInsert(m) == SaveKey(m) = <<>> \/ SaveKey(m)[1].data = PyNone

(* _insert_data: [db, log, ok, value].  PostgreSQL appends RETURNING id    *)
(* and goes through _execute(fetch_one=True), which sends the statement    *)
(* with conn.execute and again with conn.fetchrow.                         *)
InsertData(m, d) ==
    LET st == Stmt("INSERT", RowsName(m), RowsData(m))
        returning == m.backend = "postgre" /\ "id" \notin LiveNames(d)
        first == Insert(d, st.cols, st.params)
        second == Insert(first.db, st.cols, st.params)
    IN IF returning \/ ~first.ok
       THEN [db |-> d, log |-> <<st>>, ok |-> FALSE, value |-> PyNone]
       ELSE IF Len(Sent(m.backend, IF m.backend = "postgre" THEN "fetch_one" ELSE "none", st)) = 1
       THEN [db |-> first.db, log |-> <<st>>, ok |-> TRUE, value |-> first.id]
       ELSE IF second.ok
       THEN [db |-> second.db, log |-> <<st, st>>, ok |-> TRUE, value |-> second.id]
       ELSE [db |-> first.db, log |-> <<st, st>>, ok |-> FALSE, value |-> PyNone]

(* _update_data: [db, log, ok, value]                                      *)
UpdateData(m, d) ==
    LET key == SaveKey(m)[1]
        st == [Stmt("UPDATE", RowsName(m), Append(RowsData(m), key.data))
                  EXCEPT !.where = <<key.row_name>>]
        r == Update(d, RowsName(m), RowsData(m), key.row_name, key.data)
    IN [db |-> r.db, log |-> <<st>>, ok |-> r.ok,
        value |-> IF r.ok THEN key.data ELSE PyNone]

(* save(): ensure_table_exists, then the INSERT or the UPDATE.             *)
SaveModel(m, d) ==
    LET e == EnsureTable(m, d)
        w == IF IsInsert(m) THEN InsertData(m, e.db) ELSE UpdateData(m, e.db)
    IN IF ~e.ok THEN [db |-> e.db, log |-> e.log, ok |-> FALSE, value |-> PyNone]
       ELSE [db |-> w.db, log |-> e.log \o w.log, ok |-> w.ok, value |-> w.value]

JsonNumbers == [x \in {"7"} |-> 7]

(* json.loads of the stored text: a number's digits become the number;     *)
(* text that is no JSON raises JSONDecodeError and stays as it is.         *)
JsonLoads(v) ==
    IF v.kind = "str" /\ v.s \in DOMAIN JsonNumbers THEN PyInt(JsonNumbers[v.s]) ELSE v

(* The value a loaded column takes: SQLite decodes BLOB columns, the       *)
(* others decode JSON columns holding a string.                            *)
LoadValue(b, c, v) ==
    IF v = PyNone THEN v
    ELSE IF b = "sqlite" /\ c.data_type = "BLOB" THEN JsonLoads(v)
    ELSE IF b # "sqlite" /\ c.data_type \in {"JSON", "JSONB"} /\ v.kind = "str" THEN JsonLoads(v)
    ELSE v

(* for idx, column in enumerate(table_columns): value = result[idx] ...    *)
(* then set_results(data)                                                  *)
SetResults(m, row) ==
    [m EXCEPT !.cols = [i \in DOMAIN m.cols |->
                           [m.cols[i] EXCEPT !.data = LoadValue(m.backend, m.cols[i], row[i])]]]

(* A SELECT and what the instance makes of its first row:                  *)
(* [model, log, ok, raised, rows]                                          *)
LoadFirst(m, d, keys, values) ==
    LET st == [Stmt("SELECT", <<>>, values) EXCEPT !.where = keys]
        r == SelectRows(d, keys, values)
        sent == Sent(m.backend, IF m.backend = "postgre" THEN "fetch_one" ELSE "none", st)
    IN IF ~r.ok
       THEN [model |-> m, log |-> <<st>>, ok |-> FALSE, raised |-> "driver", rows |-> 0]
       ELSE IF r.rows = <<>>
       THEN [model |-> m, log |-> sent, ok |-> TRUE, raised |-> "none", rows |-> 0]
       ELSE IF Len(m.cols) > Len(r.rows[1])
       THEN [model |-> m, log |-> sent, ok |-> FALSE, raised |-> "IndexError", rows |-> 0]
       ELSE [model |-> SetResults(m, r.rows[1]), log |-> sent, ok |-> TRUE,
             raised |-> "none", rows |-> 1]

(* The latest inserting save stays the reference while the table is as     *)
(* that save left it.                                                      *)
StillClean(ls, before, after) == IF before = after THEN ls ELSE NoSave

(* model = Model(db_config, table): a new instance, every data None        *)
NewModel(d) ==
    /\ mdl' = NewInstance(db.backend, d)
    /\ log' = <<>>
    /\ out' = [NoOut EXCEPT !.op = "new", !.lastSave = out.lastSave]
    /\ UNCHANGED db
    /\ UNCHANGED notModelVars

(* await model.ensure_table_exists()                                       *)
EnsureTableExists ==
    /\ LET r == EnsureTable(mdl, db)
       IN /\ db' = r.db
          /\ log' = r.log
          /\ out' = [NoOut EXCEPT !.op = "ensure", !.outcome = Outcome(r.ok),
                                  !.raised = IF r.ok THEN "none" ELSE "driver",
                                  !.lastSave = StillClean(out.lastSave, db, r.db)]
    /\ UNCHANGED mdl
    /\ UNCHANGED notModelVars

(* The value a caller puts into a column that is no key.                   *)
DataValue(c) == IF c.data_type = "BLOB" THEN PyStr("7") ELSE PyStr("Alice")

(* The identity a caller may put into the key column.                      *)
KeyValues == {PyNone, PyInt(1)}

(* model.<column>.data = value, for every column: the key gets pk.         *)
SetData(pk) ==
    /\ mdl.cols # <<>>
    /\ mdl' = [mdl EXCEPT !.cols = [i \in DOMAIN mdl.cols |->
                   [mdl.cols[i] EXCEPT !.data = IF mdl.cols[i].primary_key THEN pk
                                                ELSE DataValue(mdl.cols[i])]]]
    /\ log' = <<>>
    /\ out' = [NoOut EXCEPT !.op = "set", !.lastSave = out.lastSave]
    /\ UNCHANGED db
    /\ UNCHANGED notModelVars

(* await model.save()                                                      *)
AfterSave_WriteBack(m, value) ==
    [m EXCEPT !.cols = [i \in DOMAIN @ |-> IF @[i].primary_key THEN [@[i] EXCEPT !.data = value]
                                                              ELSE @[i]]]

(* The instance after save() returned value: no column is assigned.        *)
AfterSave(m, value) == m

(* A save() right after an inserting save() of the same instance that      *)
(* succeeded, the one case in which the table may outgrow MaxModelRows.    *)
RepeatedSave ==
    /\ out.op = "insert"
    /\ out.outcome = "ok"
    /\ Len(db.rows) <= MaxModelRows
    /\ db.seq <= MaxSeq

ModelSave ==
    /\ IsInsert(mdl) => ((Len(db.rows) < MaxModelRows /\ db.seq < MaxSeq) \/ RepeatedSave)
    /\ LET r == SaveModel(mdl, db)
       IN /\ db' = r.db
          /\ log' = r.log
          /\ out' = [NoOut EXCEPT !.op = IF IsInsert(mdl) THEN "insert" ELSE "update",
                                  !.outcome = Outcome(r.ok),
                                  !.raised = IF r.ok THEN "none" ELSE "driver",
                                  !.value = r.value,
                                  !.lastSave = IF IsInsert(mdl) /\ r.ok
                                               THEN [id |-> r.value, model |-> mdl,
                                                     clean |-> TRUE]
                                               ELSE StillClean(out.lastSave, db, r.db)]
          /\ mdl' = AfterSave(mdl, r.value)
    /\ UNCHANGED notModelVars

(* The ids a caller loads: 1, or what the latest inserting save returned.  *)
LoadIds == {PyInt(1), out.lastSave.id} \ {PyNone}

(* await model.load_one(id): SELECT * FROM t WHERE id = ?                  *)
LoadOne(id) ==
    /\ id \in LoadIds
    /\ LET r == LoadFirst(mdl, db, <<"id">>, <<id>>)
       IN /\ mdl' = r.model
          /\ log' = r.log
          /\ out' = [NoOut EXCEPT !.op = "load_one", !.outcome = Outcome(r.ok),
                                  !.raised = r.raised, !.rows = r.rows, !.arg = id,
                                  !.conditions = 1,
                                  !.lastSave = out.lastSave]
    /\ UNCHANGED db
    /\ UNCHANGED notModelVars

(* The keyword conditions a caller passes: none, or name = "Alice".        *)
Kwargs == {<<>>, <<[key |-> "name", value |-> PyStr("Alice")]>>}

Keys(kw) == [i \in DOMAIN kw |-> kw[i].key]

KwValues(kw) == [i \in DOMAIN kw |-> kw[i].value]

(* await model.load_one_custom(kwargs): ValueError without a condition   *)
LoadOneCustom(kw) ==
    /\ LET r == IF kw = <<>>
                THEN [model |-> mdl, log |-> <<>>, ok |-> FALSE, raised |-> "ValueError",
                      rows |-> 0]
                ELSE LoadFirst(mdl, db, Keys(kw), KwValues(kw))
       IN /\ mdl' = r.model
          /\ log' = r.log
          /\ out' = [NoOut EXCEPT !.op = "load_one_custom", !.outcome = Outcome(r.ok),
                                  !.raised = r.raised, !.rows = r.rows,
                                  !.conditions = Len(kw),
                                  !.lastSave = out.lastSave]
    /\ UNCHANGED db
    /\ UNCHANGED notModelVars

(* await Model.get_all_by(db_config, table, kwargs): without a condition *)
(* it is get_all, SELECT * FROM t.  The rows go into new instances; the    *)
(* row must be as long as the declared column list.                        *)
GetAllBy(kw) ==
    /\ LET st == [Stmt("SELECT", <<>>, KwValues(kw)) EXCEPT !.where = Keys(kw)]
           r == SelectRows(db, Keys(kw), KwValues(kw))
           short == r.rows # <<>> /\ Len(mdl.cols) > Len(db.cols)
           mode == IF mdl.backend = "postgre" THEN "fetch_all" ELSE "none"
       IN /\ log' = IF r.ok THEN Sent(mdl.backend, mode, st) ELSE <<st>>
          /\ out' = [NoOut EXCEPT !.op = "get_all_by",
                                  !.outcome = Outcome(r.ok /\ ~short),
                                  !.raised = IF ~r.ok THEN "driver"
                                             ELSE IF short THEN "IndexError" ELSE "none",
                                  !.rows = IF r.ok /\ ~short THEN Len(r.rows) ELSE 0,
                                  !.conditions = Len(kw),
                                  !.lastSave = out.lastSave]
    /\ UNCHANGED <<mdl, db>>
    /\ UNCHANGED notModelVars

(* await model.delete(): a DELETE only if a primary-key column is marked   *)
(* and its data is not None; otherwise the call returns and does nothing.  *)
Delete ==
    /\ LET key == DeleteKey(mdl)
           bound == key # <<>> /\ key[1].data # PyNone
           st == [Stmt("DELETE", <<>>, <<key[1].data>>) EXCEPT !.where = <<key[1].row_name>>]
           r == IF bound THEN DeleteRows(db, key[1].row_name, key[1].data)
                ELSE [db |-> db, ok |-> TRUE]
       IN /\ db' = r.db
          /\ log' = IF bound THEN <<st>> ELSE <<>>
          /\ out' = [NoOut EXCEPT !.op = "delete", !.outcome = Outcome(r.ok),
                                  !.raised = IF r.ok THEN "none" ELSE "driver",
                                  !.lastSave = StillClean(out.lastSave, db, r.db)]
    /\ UNCHANGED mdl
    /\ UNCHANGED notModelVars

ModelNext ==
    \/ \E d \in Decls : NewModel(d)
    \/ \E pk \in KeyValues : SetData(pk)
    \/ EnsureTableExists
    \/ ModelSave
    \/ \E i \in 0..(MaxSeq + 1) : LoadOne(PyInt(i))
    \/ \E kw \in Kwargs : LoadOneCustom(kw)
    \/ \E kw \in Kwargs : GetAllBy(kw)
    \/ Delete

---------------------------------------------------------------------------
(* Type mapping (data_types.py) and column construction                    *)

MaxLength == 2

(* class DataType(Enum): the members, by name *)
DataTypes ==
    {"TEXT", "CHAR", "VARCHAR", "INTEGER", "SMALLINT", "BIGINT", "REAL", "DECIMAL", "SERIAL",
     "TIMESTAMP", "DATE", "TIME", "INTERVAL", "BOOLEAN", "BLOB", "BYTEA", "JSON", "JSONB"}

(* The db_type strings callers pass: the two get_sql_type knows, and the   *)
(* one ColumnModelMySQL passes.                                            *)
Dialects == {"postgresql", "sqlite", "mysql"}

(* length / len_data_type: None or an int *)
Lengths == {PyNone} \cup {PyInt(i) : i \in 0..MaxLength}

(* DataType.CHAR, DataType.VARCHAR *)
CharTypes == {"CHAR", "VARCHAR"}

(* How a call ended: the value it returned, or the exception it raised.    *)
Returned(v) == [raised |-> "none", value |-> v]

Raised(e) == [raised |-> e, value |-> "none"]

(* `length or d`: None and 0 are falsy *)
LengthOr(l, d) == IF l = PyNone \/ l.n = 0 THEN d ELSE l.n

(* f"CHAR({n})" *)
Sized(name, n) == name \o "(" \o ToString(n) \o ")"

(* _get_postgresql_type: the mapping is built first, then CHAR and VARCHAR *)
(* with length None raise.                                                 *)
PostgresqlMapping(t, l) ==
    CASE t = "CHAR" -> Sized("CHAR", LengthOr(l, 1))
      [] t = "VARCHAR" -> Sized("VARCHAR", LengthOr(l, 255))
      [] t = "BLOB" -> "BYTEA"
      [] OTHER -> t

PostgresqlType(t, l) ==
    IF t \in CharTypes /\ l = PyNone
    THEN Raised("ValueError")
    ELSE Returned(PostgresqlMapping(t, l))

(* _get_sqlite_type: a table lookup; length is not read *)
SqliteType(t, l) ==
    Returned(CASE t \in {"TEXT", "CHAR", "VARCHAR", "TIMESTAMP", "DATE", "TIME", "INTERVAL",
                         "JSON", "JSONB"} -> "TEXT"
               [] t \in {"INTEGER", "SMALLINT", "BIGINT", "SERIAL", "BOOLEAN"} -> "INTEGER"
               [] t \in {"REAL", "DECIMAL"} -> "REAL"
               [] t \in {"BLOB", "BYTEA"} -> "BLOB")

(* DataType.get_sql_type(db_type, length) *)
SqlType(t, d, l) ==
    CASE d = "postgresql" -> PostgresqlType(t, l)
      [] d = "sqlite" -> SqliteType(t, l)
      [] OTHER -> Raised("ValueError")

(* ColumnModelMySQL(data, row_name, data_type, len_data_type): the length  *)
(* test, then get_sql_type("mysql", ...), whose result becomes data_type   *)
(* of the object.                                                          *)
MySQLColumn(t, l) ==
    IF t \in CharTypes /\ l = PyNone
    THEN Raised("ValueError")
    ELSE IF l # PyNone /\ l.n # 0
         THEN SqlType(t, "mysql", l)
         ELSE SqlType(t, "mysql", PyNone)

(* sqlite.data_types.DataTypeDB: attribute name -> type string *)
SqliteDataTypeDB ==
    [a \in {"text", "integet", "real", "timestamp", "date", "time", "interval", "boolean",
            "bytea"} |->
        CASE a = "text" -> "TEXT"
          [] a = "integet" -> "INTEGER"
          [] a = "real" -> "REAL"
          [] a = "timestamp" -> "TIMESTAMP"
          [] a = "date" -> "DATE"
          [] a = "time" -> "TIME"
          [] a = "interval" -> "INTERVAL"
          [] a = "boolean" -> "BOOLEAN"
          [] a = "bytea" -> "BYTEA"]

(* The attribute names a caller may ask the SQLite column for.             *)
SqliteTypeNames == DOMAIN SqliteDataTypeDB \cup {"char", "varchar", "CHAR", "VARCHAR"}

(* sqlite ColumnModel(data, row_name, data_type, len_data_type): hasattr,  *)
(* getattr, and the '{}' test, which no SQLite type string meets.          *)
SqliteColumn(a, l) ==
    IF a \notin DOMAIN SqliteDataTypeDB
    THEN Raised("ValueError")
    ELSE Returned(SqliteDataTypeDB[a])

(* The common ColumnModel dataclass: the generated __init__ stores its     *)
(* arguments and checks nothing.                                           *)
CommonColumn(t, l) == Returned(t)

NoCall ==
    [op |-> "none", type |-> "none", dialect |-> "none", length |-> PyNone,
     raised |-> "none", value |-> "none"]

Call(op, t, d, l, r) ==
    [op |-> op, type |-> t, dialect |-> d, length |-> l, raised |-> r.raised, value |-> r.value]

TypeInit == col = NoCall

(* data_type.get_sql_type(db_type, length) *)
GetSqlType(t, d, l) ==
    /\ col' = Call("get_sql_type", t, d, l, SqlType(t, d, l))
    /\ UNCHANGED notTypeVars

(* ColumnModelMySQL(..., data_type, len_data_type) *)
NewColumnMySQL(t, l) ==
    /\ col' = Call("ColumnModelMySQL", t, "mysql", l, MySQLColumn(t, l))
    /\ UNCHANGED notTypeVars

(* sqlite.column_model.ColumnModel(..., data_type, len_data_type) *)
NewColumnSqlite(a, l) ==
    /\ col' = Call("ColumnModelSQLite", a, "sqlite", l, SqliteColumn(a, l))
    /\ UNCHANGED notTypeVars

(* base_model.ColumnModel(data, row_name, data_type, len_data_type=...) *)
NewColumnCommon(t, l) ==
    /\ col' = Call("ColumnModel", t, "any", l, CommonColumn(t, l))
    /\ UNCHANGED notTypeVars

TypeNext ==
    \/ \E t \in DataTypes, d \in Dialects, l \in Lengths : GetSqlType(t, d, l)
    \/ \E t \in DataTypes, l \in Lengths : NewColumnMySQL(t, l)
    \/ \E a \in SqliteTypeNames, l \in Lengths : NewColumnSqlite(a, l)
    \/ \E t \in DataTypes, l \in Lengths : NewColumnCommon(t, l)

---------------------------------------------------------------------------
(* BaseModel.get_schema_on_create: the CREATE statement of a model         *)

MaxColumns == 3

(* The tables a column may reference, each as the primary_key flags of its *)
(* columns in declared order; <<>> is a table without columns.             *)
ReferenceTables == {<<TRUE>>, <<FALSE, TRUE>>, <<FALSE>>, <<FALSE, FALSE>>, <<>>}

(* references_table: None, or a model of one of these tables *)
NoReference == [table |-> FALSE, keys |-> <<>>]

References == {NoReference} \cup {[table |-> TRUE, keys |-> k] : k \in ReferenceTables}

(* A declared column of the table being created: primary_key, unique,      *)
(* references_table; row_name and data_type come from its position.        *)
SchemaColumns ==
    [primary_key : BOOLEAN, unique : BOOLEAN,
     references_table : References]

RowName(i) == "c" \o ToString(i)

(* The text pieces joined with a separator: sep.join(parts) *)
RECURSIVE Join(_, _)
Join(parts, sep) ==
    IF parts = <<>> THEN ""
    ELSE IF Len(parts) = 1 THEN parts[1]
    ELSE parts[1] \o sep \o Join(Tail(parts), sep)

(* f'{row.row_name} {row.data_type} {" ".join(constraints)}' *)
RowDefinition(row, i) ==
    RowName(i) \o " TEXT " \o
        Join((IF row.primary_key THEN <<"PRIMARY KEY">> ELSE <<>>)
                \o (IF row.unique THEN <<"UNIQUE">> ELSE <<>>), " ")

Reference_FirstColumn(row, i) ==
    "FOREIGN KEY (" \o RowName(i) \o ") REFERENCES r(c1)"

(* The inner loop: the FOREIGN KEY clause for the first primary-key column *)
(* of the referenced table, or None ("none") when the loop finds none.     *)
Reference(row, i) ==
    LET ref == row.references_table.keys
        pks == {k \in 1..Len(ref) : ref[k] = TRUE}
    IN  IF pks = {} THEN "none"
        ELSE "FOREIGN KEY (" \o RowName(i) \o ") REFERENCES r("
                \o RowName(CHOOSE k \in pks : \A j \in pks : k <= j) \o ")"

(* The outer loop from row i on: the row definitions and references        *)
(* collected so far, or the raise at the first row whose referenced table  *)
(* has no primary key.                                                     *)
RECURSIVE SchemaRows(_, _, _, _)
SchemaRows(rows, i, defs, refs) ==
    IF i > Len(rows)
    THEN [raised |-> "none", defs |-> defs, refs |-> refs]
    ELSE LET row == rows[i]
             defs2 == Append(defs, RowDefinition(row, i))
         IN  IF row.references_table = NoReference
             THEN SchemaRows(rows, i + 1, defs2, refs)
             ELSE IF Reference(row, i) = "none"
                  THEN [raised |-> "ValueError", defs |-> defs2, refs |-> refs]
                  ELSE SchemaRows(rows, i + 1, defs2, Append(refs, Reference(row, i)))

(* get_schema_on_create(): the DDL string, or the exception *)
GetSchemaOnCreate(rows) ==
    LET r == SchemaRows(rows, 1, <<>>, <<>>)
    IN  IF r.raised # "none"
        THEN [raised |-> r.raised, ddl |-> "none"]
        ELSE [raised |-> "none",
              ddl |-> "CREATE TABLE t (\n" \o Join(r.defs, ",\n")
                        \o (IF r.refs # <<>> THEN ",\n" \o Join(r.refs, ",\n") ELSE "")
                        \o "\n);"]

NoSchema == [called |-> FALSE, rows |-> <<>>, raised |-> "none", ddl |-> "none"]

SchemaInit == sch = NoSchema

(* model.get_schema_on_create() on a model with one more declared column   *)
(* than the latest one had, or on a model with no columns.                 *)
BuildSchema(rows) ==
    /\ sch' = [called |-> TRUE, rows |-> rows,
               raised |-> GetSchemaOnCreate(rows).raised,
               ddl |-> GetSchemaOnCreate(rows).ddl]
    /\ UNCHANGED notSchemaVars

SchemaNext ==
    \/ BuildSchema(<<>>)
    \/ \E c \in SchemaColumns :
          /\ Len(sch.rows) < MaxColumns
          /\ BuildSchema(Append(sch.rows, c))

---------------------------------------------------------------------------
(* QueryCache called from several threads. The class holds no lock, so a   *)
(* thread switch may fall between any two statements of get and of set;    *)
(* each dict operation by itself is atomic.                                *)

MaxThreadTime == 3

(* QueryCache(ttl=ThreadTtl) *)
ThreadTtl == 2

Threads == {"t1", "t2"}

ThreadValues == {"v1", "v2"}

(* self.cache.get(key) when the key is absent *)
NoItem == [present |-> FALSE, value |-> "none", timestamp |-> 0]

Item(v, t) == [present |-> TRUE, value |-> v, timestamp |-> t]

IdleThread ==
    [pc |-> "idle", op |-> "none", item |-> NoItem, raised |-> "none", value |-> "none",
     deletedFresh |-> FALSE]

ThreadInit ==
    thr = [entry |-> NoItem, now |-> 0, t |-> [x \in Threads |-> IdleThread]]

(* time.time() < item['timestamp'] + ttl, as get tests it *)
FreshAt(item, t) == item.present /\ t - item.timestamp < ThreadTtl

(* time passes *)
ThreadTick ==
    /\ thr.now < MaxThreadTime
    /\ thr' = [thr EXCEPT !.now = @ + 1]
    /\ UNCHANGED notThreadVars

(* get, line 15: item = self.cache.get(key) *)
GetRead(x) ==
    /\ thr.t[x].pc = "idle"
    /\ thr' = [thr EXCEPT !.t[x] = [IdleThread EXCEPT !.pc = "get_test", !.op = "get",
                                                      !.item = thr.entry]]
    /\ UNCHANGED notThreadVars

(* get, lines 16-17: the freshness test on the item read, and the return   *)
(* of its value                                                            *)
GetTest(x) ==
    /\ thr.t[x].pc = "get_test"
    /\ thr' = IF FreshAt(thr.t[x].item, thr.now)
              THEN [thr EXCEPT !.t[x].pc = "idle", !.t[x].value = thr.t[x].item.value]
              ELSE [thr EXCEPT !.t[x].pc = "get_in"]
    /\ UNCHANGED notThreadVars

(* get, line 18: if key in self.cache; line 20 when it is not *)
GetIn(x) ==
    /\ thr.t[x].pc = "get_in"
    /\ thr' = IF thr.entry.present
              THEN [thr EXCEPT !.t[x].pc = "get_del"]
              ELSE [thr EXCEPT !.t[x].pc = "idle", !.t[x].value = "None"]
    /\ UNCHANGED notThreadVars

(* get, line 19: del self.cache[key], a KeyError when the key is gone by   *)
(* now; then line 20                                                       *)
GetDel(x) ==
    /\ thr.t[x].pc = "get_del"
    /\ thr' = IF thr.entry.present
              THEN [thr EXCEPT !.entry = NoItem,
                               !.t[x].pc = "idle",
                               !.t[x].value = "None",
                               !.t[x].deletedFresh =
                                    thr.t[x].item.present /\ FreshAt(thr.entry, thr.now)]
              ELSE [thr EXCEPT !.t[x].pc = "idle", !.t[x].raised = "KeyError"]
    /\ UNCHANGED notThreadVars

(* set, line 24, right-hand side: the dict with time.time() *)
SetBuild(x, v) ==
    /\ thr.t[x].pc = "idle"
    /\ thr' = [thr EXCEPT !.t[x] = [IdleThread EXCEPT !.pc = "set_store", !.op = "set",
                                                      !.item = Item(v, thr.now)]]
    /\ UNCHANGED notThreadVars

(* set, line 24: the store self.cache[key] = ... *)
SetStore(x) ==
    /\ thr.t[x].pc = "set_store"
    /\ thr' = [thr EXCEPT !.entry = thr.t[x].item, !.t[x].pc = "idle"]
    /\ UNCHANGED notThreadVars

(* clear, line 27: self.cache.clear() *)
ThreadClear(x) ==
    /\ thr.t[x].pc = "idle"
    /\ thr' = [thr EXCEPT !.entry = NoItem, !.t[x] = [IdleThread EXCEPT !.op = "clear"]]
    /\ UNCHANGED notThreadVars

ThreadNext ==
    \/ ThreadTick
    \/ \E x \in Threads : GetRead(x)
    \/ \E x \in Threads : GetTest(x)
    \/ \E x \in Threads : GetIn(x)
    \/ \E x \in Threads : GetDel(x)
    \/ \E x \in Threads, v \in ThreadValues : SetBuild(x, v)
    \/ \E x \in Threads : SetStore(x)
    \/ \E x \in Threads : ThreadClear(x)

---------------------------------------------------------------------------
(* Two tasks calling cache_query-wrapped functions on one event loop: the  *)
(* wrapper runs without a switch up to `await func(...)` and again from    *)
(* its return through cache.set.                                           *)

RaceCallers == {"c1", "c2"}

RaceInit ==
    /\ cache = EmptyCache
    /\ now = 0
    /\ lastSet = EmptyCache
    /\ lastRun = EmptyCache
    /\ ret = NoRet
    /\ callers = [c \in RaceCallers |-> IdleCaller]

RaceNext ==
    \/ \E d \in CallTickSteps : Tick(d)
    \/ \E c \in RaceCallers, q \in Queries, a \in ArgTuples : CallSelect(c, q, a)
    \/ \E c \in RaceCallers, v \in Results : WrapperFinish(c, v)

---------------------------------------------------------------------------
(* ensure_table_exists run by several instances at once, each on its own   *)
(* connection: the existence check, the CREATE and the migration file are  *)
(* separate steps with awaits between them.                                *)

Instances == {"m1", "m2", "m3"}

IdleInstance == [pc |-> "idle", outcome |-> "none", calls |-> 0]

MaxCalls == 2

EnsureInit ==
    ens = [exists |-> FALSE, creates |-> 0, files |-> 0, p |-> [i \in Instances |-> IdleInstance]]

(* The existence query and its result: `if not result`                     *)
CheckExists(i) ==
    /\ ens.p[i].pc \in {"idle", "done"}
    /\ ens.p[i].calls < MaxCalls
    /\ ens' = [ens EXCEPT !.p[i] = [pc |-> IF ens.exists THEN "present" ELSE "absent",
                                    outcome |-> "none", calls |-> ens.p[i].calls + 1]]
    /\ UNCHANGED notEnsureVars

(* The CREATE TABLE statement, which has no IF NOT EXISTS: the database    *)
(* rejects it when the table exists by now, and the except branch          *)
(* re-raises.                                                              *)
ExecuteCreate(i) ==
    /\ ens.p[i].pc = "absent"
    /\ ens' = IF ens.exists
              THEN [ens EXCEPT !.p[i].pc = "done", !.p[i].outcome = "error"]
              ELSE [ens EXCEPT !.exists = TRUE, !.creates = @ + 1, !.p[i].pc = "created"]
    /\ UNCHANGED notEnsureVars

(* self.create_migration_file(schema), and the return                      *)
WriteMigration(i) ==
    /\ ens.p[i].pc = "created"
    /\ ens' = [ens EXCEPT !.files = @ + 1, !.p[i].pc = "done", !.p[i].outcome = "ok"]
    /\ UNCHANGED notEnsureVars

(* _update_table_schema_if_needed on the table found, and the return       *)
SyncSchema(i) ==
    /\ ens.p[i].pc = "present"
    /\ ens' = [ens EXCEPT !.p[i].pc = "done", !.p[i].outcome = "ok"]
    /\ UNCHANGED notEnsureVars

EnsureNext ==
    \/ \E i \in Instances : CheckExists(i)
    \/ \E i \in Instances : ExecuteCreate(i)
    \/ \E i \in Instances : WriteMigration(i)
    \/ \E i \in Instances : SyncSchema(i)

---------------------------------------------------------------------------
(* AsyncPGBaseClass.get_all / get_all_by / execute_query: the classmethods *)
(* create an instance, run the query on it, build one instance per result  *)
(* row under the same local name, and close the instance that name holds.  *)

MaxResultRows == 5

MaxConditions == 2

ClassOps == {"get_all", "get_all_by", "execute_query"}

NoQuery ==
    [op |-> "none", conditions |-> 0, pc |-> "idle", handle |-> "none", bound |-> "none",
     left |-> 0, instances |-> 0, outcome |-> "none"]

ClassInit == qry = NoQuery

(* cls.get_all(db_config, table), cls.get_all_by(db_config, table, kwargs) *)
(* with k conditions: instance = cls(db_config, table); get_all_by without *)
(* conditions is get_all.                                                  *)
StartQuery(op, k) ==
    /\ qry.pc \in {"idle", "returned", "raised"}
    /\ op \in {"get_all", "get_all_by"}
    /\ op = "get_all" => k = 0
    /\ qry' = [NoQuery EXCEPT !.op = op, !.conditions = k, !.pc = "executing",
                              !.bound = "querying"]
    /\ UNCHANGED notClassVars

(* cls.execute_query(db_config, table, query): cache_query's wrapper takes *)
(* db_config for the query text, and a dict has no strip().                *)
StartExecuteQuery ==
    /\ qry.pc \in {"idle", "returned", "raised"}
    /\ qry' = [NoQuery EXCEPT !.op = "execute_query", !.pc = "raised",
                              !.outcome = "AttributeError"]
    /\ UNCHANGED notClassVars

(* results = await instance._execute(query, ..., fetch_all=True): _connect *)
(* opens the instance's connection; n rows come back, or the statement     *)
(* fails and _execute closes the connection before it re-raises.           *)
RunQuery(n, ok) ==
    /\ qry.pc = "executing"
    /\ qry' = IF ok
              THEN [qry EXCEPT !.pc = "looping", !.handle = "open", !.left = n]
              ELSE [qry EXCEPT !.pc = "raised", !.handle = "closed", !.outcome = "driver"]
    /\ UNCHANGED notClassVars

(* One turn of `for result in results`: instance = cls(db_config, table)   *)
(* rebinds the local name to a new instance, which never connects.         *)
BuildInstance ==
    /\ qry.pc = "looping"
    /\ qry.left > 0
    /\ qry' = [qry EXCEPT !.left = @ - 1, !.instances = @ + 1, !.bound = "row"]
    /\ UNCHANGED notClassVars

(* await instance._close(); return instances                               *)
CloseAndReturn ==
    /\ qry.pc = "looping"
    /\ qry.left = 0
    /\ qry' = [qry EXCEPT !.pc = "returned", !.outcome = "ok",
                          !.handle = IF qry.bound = "querying" THEN "closed" ELSE @]
    /\ UNCHANGED notClassVars

ClassNext ==
    \/ \E op \in ClassOps, k \in 0..MaxConditions : StartQuery(op, k)
    \/ StartExecuteQuery
    \/ \E n \in 0..MaxResultRows, ok \in BOOLEAN : RunQuery(n, ok)
    \/ BuildInstance
    \/ CloseAndReturn

---------------------------------------------------------------------------
(* The one module-level cache behind every cache_query wrapper: calls of   *)
(* different wrapped functions, on different instances, with and without   *)
(* keyword arguments.                                                      *)

(* Who calls: two functions wrapped with cache_query on a class with two   *)
(* instances, and kwargs by their values: none, or one keyword argument.   *)
(* Next to a plain call, one that differs from it in the kwargs only, one  *)
(* in the function only, one in the instance only.                         *)
SharedCallers ==
    {[fn |-> "select", self |-> "a", kwargs |-> <<>>],
     [fn |-> "select", self |-> "a", kwargs |-> <<Str(<<"k">>)>>],
     [fn |-> "other", self |-> "a", kwargs |-> <<>>],
     [fn |-> "select", self |-> "b", kwargs |-> <<>>]}

SharedResults == {None, "r1"}

NoOwner == [fn |-> "none", self |-> "none", kwargs |-> <<>>]

NoShared ==
    [pc |-> "idle", fn |-> "none", self |-> "none", query |-> Str(<<>>), args |-> <<>>,
     kwargs |-> <<>>, served |-> FALSE, result |-> None]

ShareInit ==
    shr = [cache |-> EmptyCache, owner |-> [k \in {} |-> NoOwner], now |-> 0, call |-> NoShared]

SharedKey_WithKwargs(c) == MakeKey(c.query, MakeParams(c.args \o c.kwargs))

(* wrapper, lines 37-38: params = tuple(args) if args else None, and the   *)
(* key cache.get builds from query and params; self, func and kwargs take  *)
(* no part.                                                                *)
SharedKey(c) == MakeKey(c.query, MakeParams(c.args))

ShareTick(d) ==
    /\ shr.now + d <= MaxTime
    /\ shr' = [shr EXCEPT !.now = @ + d]
    /\ UNCHANGED notShareVars

(* self.fn(query, *args, **kwargs) up to its first await: the prefix test, *)
(* the lookup, the return of a hit.                                        *)
SharedCall(who, q, args) ==
    LET c == [NoShared EXCEPT !.fn = who.fn, !.self = who.self, !.query = Str(q),
                              !.args = args, !.kwargs = who.kwargs]
        key == SharedKey(c)
        r == CacheGet(shr.cache, key, shr.now)
    IN
    /\ shr.call.pc # "awaiting"
    /\ shr' = IF ~IsSelect(q)
              THEN [shr EXCEPT !.call = [c EXCEPT !.pc = "awaiting"]]
              ELSE IF r.value # None
              THEN [shr EXCEPT !.call = [c EXCEPT !.pc = "returned", !.served = TRUE,
                                                  !.result = r.value]]
              ELSE [shr EXCEPT !.cache = r.cache,
                               !.owner = [k \in DOMAIN r.cache |-> shr.owner[k]],
                               !.call = [c EXCEPT !.pc = "awaiting"]]
    /\ UNCHANGED notShareVars

(* func returns v; the wrapper of a SELECT stores it under the key.        *)
SharedFinish(v) ==
    LET c == shr.call
        key == SharedKey(c)
    IN
    /\ c.pc = "awaiting"
    /\ shr' = IF ~IsSelect(c.query.chars)
              THEN [shr EXCEPT !.call = [c EXCEPT !.pc = "returned", !.result = v]]
              ELSE [shr EXCEPT !.cache = CacheSet(shr.cache, key, v, shr.now),
                               !.owner = [k \in DOMAIN shr.owner \cup {key} |->
                                             IF k = key
                                             THEN [fn |-> c.fn, self |-> c.self,
                                                   kwargs |-> c.kwargs]
                                             ELSE shr.owner[k]],
                               !.call = [c EXCEPT !.pc = "returned", !.result = v]]
    /\ UNCHANGED notShareVars

ShareNext ==
    \/ \E d \in CallTickSteps : ShareTick(d)
    \/ \E who \in SharedCallers, q \in Queries, a \in ArgTuples : SharedCall(who, q, a)
    \/ \E v \in SharedResults : SharedFinish(v)

---------------------------------------------------------------------------
(* Specifications                                                          *)

CacheSpecInit == CacheInit /\ ConnQuiet /\ TxInit /\ ScopeInit /\ ModelQuiet /\ TypeInit /\ SchemaInit /\ ThreadInit /\ EnsureInit /\ ClassInit /\ ShareInit

CacheSpec == CacheSpecInit /\ [][CacheNext]_vars

WrapperSpec == CacheSpecInit /\ [][WrapperNext]_vars

ConnSpecInit == CacheInit /\ ConnInit /\ TxInit /\ ScopeInit /\ ModelQuiet /\ TypeInit /\ SchemaInit /\ ThreadInit /\ EnsureInit /\ ClassInit /\ ShareInit

ConnSpec == ConnSpecInit /\ [][ConnNext]_vars

TxSpecInit == CacheInit /\ ConnQuiet /\ TxInit /\ ScopeInit /\ ModelQuiet /\ TypeInit /\ SchemaInit /\ ThreadInit /\ EnsureInit /\ ClassInit /\ ShareInit

TxSpec == TxSpecInit /\ [][TxNext]_vars

ScopeSpecInit == CacheInit /\ ConnQuiet /\ TxInit /\ ScopeInit /\ ModelQuiet /\ TypeInit /\ SchemaInit /\ ThreadInit /\ EnsureInit /\ ClassInit /\ ShareInit

ScopeSpec == ScopeSpecInit /\ [][ScopeNext]_vars

ModelSpecInit == CacheInit /\ ConnQuiet /\ TxInit /\ ScopeInit /\ ModelInit /\ TypeInit /\ SchemaInit /\ ThreadInit /\ EnsureInit /\ ClassInit /\ ShareInit

ModelSpec == ModelSpecInit /\ [][ModelNext]_vars

TypeSpecInit == CacheInit /\ ConnQuiet /\ TxInit /\ ScopeInit /\ ModelQuiet /\ TypeInit /\ SchemaInit /\ ThreadInit /\ EnsureInit /\ ClassInit /\ ShareInit

TypeSpec == TypeSpecInit /\ [][TypeNext]_vars

SchemaSpecInit == CacheInit /\ ConnQuiet /\ TxInit /\ ScopeInit /\ ModelQuiet /\ TypeInit /\ SchemaInit /\ ThreadInit /\ EnsureInit /\ ClassInit /\ ShareInit

SchemaSpec == SchemaSpecInit /\ [][SchemaNext]_vars

ThreadSpecInit == CacheInit /\ ConnQuiet /\ TxInit /\ ScopeInit /\ ModelQuiet /\ TypeInit /\ SchemaInit /\ ThreadInit /\ EnsureInit /\ ClassInit /\ ShareInit

ThreadSpec == ThreadSpecInit /\ [][ThreadNext]_vars

RaceSpecInit == RaceInit /\ ConnQuiet /\ TxInit /\ ScopeInit /\ ModelQuiet /\ TypeInit /\ SchemaInit /\ ThreadInit /\ EnsureInit /\ ClassInit /\ ShareInit

RaceSpec == RaceSpecInit /\ [][RaceNext]_vars

EnsureSpecInit == CacheInit /\ ConnQuiet /\ TxInit /\ ScopeInit /\ ModelQuiet /\ TypeInit /\ SchemaInit /\ ThreadInit /\ EnsureInit /\ ClassInit /\ ShareInit

EnsureSpec == EnsureSpecInit /\ [][EnsureNext]_vars

ClassSpecInit == CacheInit /\ ConnQuiet /\ TxInit /\ ScopeInit /\ ModelQuiet /\ TypeInit /\ SchemaInit /\ ThreadInit /\ EnsureInit /\ ClassInit /\ ShareInit

ClassSpec == ClassSpecInit /\ [][ClassNext]_vars

ShareSpecInit == CacheInit /\ ConnQuiet /\ TxInit /\ ScopeInit /\ ModelQuiet /\ TypeInit /\ SchemaInit /\ ThreadInit /\ EnsureInit /\ ClassInit /\ ShareInit

ShareSpec == ShareSpecInit /\ [][ShareNext]_vars

---------------------------------------------------------------------------
(* Properties of the cache and of the wrapper                              *)

(* C1: a lookup returns a value only if the key was set less than ttl      *)
(* seconds before it; a lookup at an age of ttl or more (exactly ttl       *)
(* included) returns None and leaves no entry for the key.                 *)
C1_GetOnlyFresh ==
    ret.op = "get" =>
        /\ (ret.value # None => ret.stored /\ ret.age < CacheTtl)
        /\ (ret.stored /\ ret.age >= CacheTtl => ret.value = None /\ ~ret.present)
        /\ (~ret.stored => ret.value = None /\ ~ret.present)

C1_Witness ==
    /\ ret.op = "get" /\ ret.stored /\ ret.storedValue # None
    /\ ret.age = CacheTtl /\ ret.value = None /\ ~ret.present

(* set followed by get before ttl elapses returns the value set            *)
SetThenGetReturnsValue ==
    ret.op = "get" /\ ret.stored /\ ret.age < CacheTtl => ret.value = ret.storedValue

(* C2: the ttl given to the decorator bounds the age of every result the   *)
(* wrapper serves from the cache.                                          *)
C2_DecoratorTtlBoundsAge ==
    \A c \in Callers :
        callers[c].pc = "returned" /\ callers[c].served
            => callers[c].servedAge <= DecoratorTtl(callers[c].fn)

(* C3: execute_query(db_config, table, query) with a SELECT text does not  *)
(* fail in the wrapper, and a call that repeats one executed less than ttl *)
(* ago makes no round trip and returns the result of that execution.       *)
C3_ExecuteQueryCached ==
    \A c \in Callers :
        callers[c].fn \in Backends /\ callers[c].pos[3] = Str(QSelect)
            => /\ callers[c].pc # "raised"
               /\ (callers[c].pc = "returned" /\ callers[c].ran /\ callers[c].ranAge < CacheTtl
                     => ~callers[c].executed /\ callers[c].result = callers[c].ranValue)

(* C4: a wrapped function called again with the same SELECT text and the   *)
(* same positional args less than ttl after its latest execution does not  *)
(* run again and returns the result of that execution.                     *)
C4_SecondCallServed ==
    \A c \in Callers :
        /\ callers[c].fn = "select" /\ callers[c].pos[1] = Str(QSelect)
        /\ callers[c].pc = "returned" /\ callers[c].ran /\ callers[c].ranAge < CacheTtl
        => ~callers[c].executed /\ callers[c].result = callers[c].ranValue

(* C5: whatever their age, no entry survives clear(): every entry of the   *)
(* cache was set after the latest clear, and a wrapped SELECT call whose   *)
(* key was not set since then executes the underlying function.            *)
C5_ClearEmptiesAll ==
    /\ \A k \in DOMAIN cache : k \in DOMAIN lastSet
    /\ \A c \in Callers :
          /\ callers[c].fn = "select" /\ callers[c].pos[1] = Str(QSelect)
          /\ callers[c].pc = "returned" /\ ~callers[c].stored
          => callers[c].executed /\ ~callers[c].served

C5_Witness ==
    \E c \in Callers :
        /\ ret.op = "clear" /\ callers[c].fn = "select"
        /\ ret.cleared
        /\ callers[c].pc = "returned" /\ ~callers[c].stored /\ callers[c].executed
        /\ now < CacheTtl

NonSelectTexts == {Str(QInsert), Str(DbPath)}

(* C6: a wrapper call whose text is not a SELECT goes on to the underlying *)
(* function without touching the cache, and when the function returns the  *)
(* call returns its result, again without touching the cache.              *)
C6_NonSelectBypasses ==
    [][\A c \in Callers :
        /\ ( /\ callers[c].pc # "awaiting" /\ callers'[c] # callers[c]
             /\ Head(callers'[c].pos) \in NonSelectTexts )
           => callers'[c].pc = "awaiting" /\ cache' = cache
        /\ ( /\ callers[c].pc = "awaiting" /\ callers'[c].pc = "returned"
             /\ Head(callers[c].pos) \in NonSelectTexts )
           => callers'[c].executed /\ cache' = cache]_vars

C6_Witness ==
    \E c \in Callers :
        /\ callers[c].pc = "returned" /\ callers[c].executed
        /\ Head(callers[c].pos) = Str(QInsert)
        /\ cache # EmptyCache

(* C7, as stated: a PostgreSQL connect function that fails max_retries     *)
(* times and then succeeds lets _connect succeed and leaves the instance   *)
(* with a live handle.                                                     *)
C7_FailsMaxRetriesThenConnects ==
    (/\ task.op = "connect"
     /\ task.pc = "done"
     /\ inst.backend = "postgre"
     /\ inst.max_retries >= 1
     /\ task.startConn # "open"
     /\ task.startFails = inst.max_retries)
    => (task.outcome = "ok" /\ conn = "open")

(* C7, amended: a PostgreSQL connect function that fails fewer than        *)
(* max_retries times and then succeeds lets _connect succeed, on attempt   *)
(* number failures + 1, and leaves a live handle; when it fails            *)
(* max_retries times, the failure of attempt number max_retries is raised  *)
(* and no live handle is left.                                             *)
C7_ConnectsWithinAttempts ==
    (/\ task.op = "connect"
     /\ task.pc = "done"
     /\ inst.backend = "postgre"
     /\ task.startConn # "open"
     /\ task.startFails # Always)
    => /\ task.startFails < inst.max_retries
          => (task.outcome = "ok" /\ conn = "open"
              /\ task.attempts = task.startFails + 1)
       /\ (task.startFails >= inst.max_retries /\ inst.max_retries >= 1)
          => (task.outcome = "error" /\ conn # "open"
              /\ task.attempts = inst.max_retries)

C7_Witness ==
    /\ task.op = "connect"
    /\ task.pc = "done"
    /\ inst.backend = "postgre"
    /\ inst.max_retries >= 2
    /\ task.startConn # "open"
    /\ task.startFails = inst.max_retries - 1
    /\ task.outcome = "ok"
    /\ conn = "open"
    /\ task.attempts = inst.max_retries

(* The waits between max_retries consecutive attempts.                     *)
DelayBetween(i) == IF i.max_retries >= 1 THEN i.retry_delay * (i.max_retries - 1) ELSE 0

(* C8: with a connect function that always fails, _connect makes exactly   *)
(* max_retries attempts, waits retry_delay between consecutive attempts,   *)
(* then fails and leaves no live handle.                                   *)
C8_AlwaysFailingConnect ==
    (/\ task.op = "connect"
     /\ task.pc = "done"
     /\ task.startConn # "open"
     /\ task.startFails = Always)
    => /\ task.attempts = inst.max_retries
       /\ task.slept = DelayBetween(inst)
       /\ task.outcome = "error"
       /\ conn # "open"

(* C9: a transport error while _execute runs a statement reaches the       *)
(* caller only after the statement was tried again on a fresh connection   *)
(* and met a second transport error.                                       *)
C9_TransportErrorRetriedOnce ==
    (/\ task.op = "execute"
     /\ task.pc = "done"
     /\ task.outcome = "error"
     /\ task.cause = "transport")
    => task.transportErrors = 2


(* A row of the table holds the value.                                     *)
Present(tbl, id, v) == id \in DOMAIN tbl /\ tbl[id] = v

(* C10: when the transaction scope exits normally every row saved inside   *)
(* it is in the table; when it exits by an exception the table is as it    *)
(* was when the scope was entered.                                         *)
C10_ScopeCommitsOrRollsBack ==
    scope.pc = "exited"
    => /\ scope.exit = "commit"
          => \A id \in DOMAIN scope.saved :
                scope.saved[id] # <<>> => Present(scope.after, id, scope.saved[id][1])
       /\ scope.exit = "rollback" => scope.after = scope.before

(* C11: when a transaction scope has exited, on whatever path, a           *)
(* connection acquired for it is released and no transaction is open; a    *)
(* commit was issued only if the body raised nothing, and a rollback was   *)
(* issued if an exception escaped the body.                                *)
C11_ScopeReleasesOnEveryPath ==
    (txn.pc = "exited" /\ txn.failed # "enter")
    => /\ txn.acquired => txn.handle # "open"
       /\ ~txn.open
       /\ txn.commits > 0 => txn.body = "normal"
       /\ txn.body = "exception" => txn.rollbacks > 0

---------------------------------------------------------------------------
(* Properties of the model instance's operations                           *)

(* How many statements of a kind, on the given columns, the log holds.     *)
CountOn(lg, kind, names) ==
    Cardinality({i \in DOMAIN lg : lg[i].kind = kind /\ lg[i].cols = names})

CountKind(lg, kind) == Cardinality({i \in DOMAIN lg : lg[i].kind = kind})

(* C12: a call of ensure_table_exists that returns without error leaves   *)
(* the table existing with every declared column in it; an absent table    *)
(* takes exactly one CREATE followed by one migration record and no ALTER, *)
(* an existing one takes no CREATE and exactly one ALTER TABLE ADD COLUMN  *)
(* per declared column that was missing, none for the others.              *)
C12_EnsureCreatesOrAdds ==
    [][(out'.op = "ensure" /\ out'.outcome = "ok")
       => /\ db'.exists
          /\ DeclNames(mdl) \subseteq LiveNames(db')
          /\ ~db.exists
             => /\ CountKind(log', "CREATE") = 1
                /\ CountKind(log', "MIGRATION") = 1
                /\ CountKind(log', "ALTER") = 0
                /\ log'[Len(log')].kind = "MIGRATION"
                /\ log'[Len(log') - 1].kind = "CREATE"
                /\ db'.migrations = db.migrations + 1
          /\ db.exists
             => /\ CountKind(log', "CREATE") = 0
                /\ CountKind(log', "MIGRATION") = 0
                /\ \A c \in Range(mdl.cols) :
                      CountOn(log', "ALTER", <<c.row_name>>)
                         = IF c.row_name \in LiveNames(db) THEN 0 ELSE 1
                /\ CountKind(log', "ALTER") = Cardinality(DeclNames(mdl) \ LiveNames(db))]_vars

C12_Witness ==
    /\ out.op = "ensure"
    /\ out.outcome = "ok"
    /\ CountKind(log, "ALTER") = 2
    /\ DeclNames(mdl) \subseteq LiveNames(db)

(* C13: whatever the instance does, a column of the live table stays, with *)
(* its type, also when the model does not declare it or declares it with   *)
(* another type.                                                           *)
C13_ColumnsNeverDroppedOrRetyped ==
    [][db.exists
       => /\ db'.exists
          /\ \A n \in LiveNames(db) :
                n \in LiveNames(db') /\ LiveType(db', n) = LiveType(db, n)]_vars

C13_Witness ==
    /\ out.op \in {"ensure", "insert", "update"}
    /\ out.outcome = "ok"
    /\ \E n \in LiveNames(db) : n \notin DeclNames(mdl)
    /\ \E c \in Range(mdl.cols) :
          c.row_name \in LiveNames(db) /\ LiveType(db, c.row_name) # c.data_type

(* The statements of a kind in the log, in order.                          *)
OfKind(lg, kinds) == SelectSeq(lg, LAMBDA st : st.kind \in kinds)

Saved == out.op \in {"insert", "update"}

(* The declared columns but the primary-key columns whose data is None.    *)
ColumnsWithIdentity(m) ==
    SelectSeq(m.cols, LAMBDA c : ~(c.primary_key /\ c.data = PyNone))

(* C14: the INSERT that save() builds lists the declared columns in        *)
(* declaration order without the primary-key columns whose value is unset, *)
(* and binds one parameter per listed column.                              *)
C14_InsertOmitsUnsetKey ==
    Saved
    => \A i \in DOMAIN log :
          log[i].kind = "INSERT"
          => /\ log[i].cols = [j \in DOMAIN ColumnsWithIdentity(mdl) |->
                                  ColumnsWithIdentity(mdl)[j].row_name]
             /\ Len(log[i].params) = Len(ColumnsWithIdentity(mdl))

(* C15: a save() has its INSERT or UPDATE executed exactly once; an        *)
(* inserting save that succeeds adds exactly one row, and a save that      *)
(* fails leaves the rows as they were.                                     *)
C15_SaveExecutesOnce ==
    [][(out'.op \in {"insert", "update"})
       => /\ Len(OfKind(log', {"INSERT", "UPDATE"})) <= 1
          /\ out'.outcome = "ok" => Len(OfKind(log', {"INSERT", "UPDATE"})) = 1
          /\ (out'.op = "insert" /\ out'.outcome = "ok")
             => Len(db'.rows) = Len(db.rows) + 1
          /\ out'.outcome = "error" => db'.rows = db.rows]_vars

KeyUnset(m) == SaveKey(m) = <<>> \/ SaveKey(m)[1].data = PyNone

(* C16: save() sends an INSERT and no UPDATE when no column is marked      *)
(* primary key or the key's value is unset; otherwise it sends an UPDATE   *)
(* and no INSERT, and the UPDATE's WHERE binds the key column to the key's *)
(* current value.                                                          *)
C16_InsertOrUpdateByKey ==
    (Saved /\ mdl.cols # <<>>)
    => /\ OfKind(log, {"INSERT", "UPDATE"}) # <<>>
       /\ \A i \in DOMAIN log :
             /\ log[i].kind = "INSERT" => KeyUnset(mdl)
             /\ log[i].kind = "UPDATE"
                => /\ ~KeyUnset(mdl)
                   /\ log[i].where = <<SaveKey(mdl)[1].row_name>>
                   /\ log[i].params[Len(log[i].params)] = SaveKey(mdl)[1].data
       /\ KeyUnset(mdl) => OfKind(log, {"UPDATE"}) = <<>>
       /\ ~KeyUnset(mdl) => OfKind(log, {"INSERT"}) = <<>>

C16_Witness ==
    /\ out.op = "update"
    /\ out.outcome = "ok"
    /\ Len(OfKind(log, {"UPDATE"})) = 1
    /\ \E r \in Range(db.rows) :
          r[PkIndex(db)] = SaveKey(mdl)[1].data /\ r[ColIndex(db, "name")] = PyStr("Alice")

(* C17: delete() sends a DELETE only with a WHERE binding the primary-key  *)
(* column to a set identity; with no primary-key column, or with the       *)
(* identity unset, it fails with a validation error and leaves the table   *)
(* as it was.                                                              *)
C17_DeleteNeedsIdentity ==
    [][(out'.op = "delete")
       => /\ \A i \in DOMAIN log' :
                log'[i].kind = "DELETE"
                => /\ DeleteKey(mdl) # <<>>
                   /\ log'[i].where = <<DeleteKey(mdl)[1].row_name>>
                   /\ log'[i].params = <<DeleteKey(mdl)[1].data>>
                   /\ DeleteKey(mdl)[1].data # PyNone
          /\ (DeleteKey(mdl) = <<>> \/ DeleteKey(mdl)[1].data = PyNone)
             => /\ out'.outcome = "error"
                /\ out'.raised = "ValueError"
                /\ db' = db]_vars

(* C18: load_one_custom and get_all_by called with no condition fail with  *)
(* a validation error before any statement is sent, return no row and      *)
(* leave the instance's column values as they were.                        *)
C18_SelectNeedsCondition ==
    [][(out'.op \in {"load_one_custom", "get_all_by"} /\ out'.conditions = 0)
       => /\ out'.outcome = "error"
          /\ out'.raised = "ValueError"
          /\ log' = <<>>
          /\ out'.rows = 0
          /\ mdl' = mdl]_vars

(* A new instance: every column's data is None.                            *)
Fresh(m) == \A c \in Range(m.cols) : c.data = PyNone

ValuesSet(m) == m.cols # <<>> /\ \A c \in Range(m.cols) : c.primary_key \/ c.data # PyNone

SameDeclaration(m1, m2) ==
    /\ Len(m1.cols) = Len(m2.cols)
    /\ \A i \in DOMAIN m1.cols :
          /\ m1.cols[i].row_name = m2.cols[i].row_name
          /\ m1.cols[i].data_type = m2.cols[i].data_type
          /\ m1.cols[i].primary_key = m2.cols[i].primary_key

(* C19: on each dialect, save() of a new instance with its values set      *)
(* returns an id, and load_one(id) on a fresh instance of the same model    *)
(* then gives every non-key column the value that was saved.               *)
C19_SaveThenLoadRoundTrip ==
    [][/\ (out'.op = "insert" /\ ValuesSet(mdl) /\ PkCols(mdl) # <<>>)
          => (out'.outcome = "ok" /\ out'.value # PyNone)
       /\ (/\ out'.op = "load_one"
           /\ out'.lastSave # NoSave
           /\ out'.arg = out'.lastSave.id
           /\ Fresh(mdl)
           /\ PkCols(mdl) # <<>>
           /\ ValuesSet(out'.lastSave.model)
           /\ SameDeclaration(mdl, out'.lastSave.model))
          => /\ out'.outcome = "ok"
             /\ \A i \in DOMAIN mdl.cols :
                   ~mdl.cols[i].primary_key
                   => mdl'.cols[i].data = out'.lastSave.model.cols[i].data]_vars

---------------------------------------------------------------------------
(* Properties of the type mapping                                          *)

(* The CHAR and VARCHAR types, under the names each entry point takes.     *)
IsCharType(c) == c.type \in CharTypes \cup {"char", "varchar"}

(* C20: for every dialect, mapping CHAR or VARCHAR with no length, or      *)
(* constructing a column of those types with no length, fails with an      *)
(* error and yields no SQL type string and no column object.               *)
C20_CharNeedsLength ==
    (col.op # "none" /\ IsCharType(col) /\ col.length = PyNone)
        => (col.raised = "ValueError" /\ col.value = "none")

---------------------------------------------------------------------------
(* Properties of the CREATE statement builder                              *)

(* The declared columns that reference a table without a primary key.      *)
DanglingRows(rows) ==
    {i \in 1..Len(rows) :
        /\ rows[i].references_table # NoReference
        /\ \A k \in 1..Len(rows[i].references_table.keys) : ~rows[i].references_table.keys[k]}

(* C21: building the CREATE statement of a table in which some column      *)
(* references a table that has no primary-key column fails with an error   *)
(* and returns no DDL string, wherever that column stands.                 *)
C21_ReferenceNeedsPrimaryKey ==
    (sch.called /\ DanglingRows(sch.rows) # {})
        => (sch.raised = "ValueError" /\ sch.ddl = "none")

(* The column without a target key is the last of three, after a column    *)
(* whose reference is fine.                                                *)
C21_Witness ==
    /\ sch.called
    /\ DanglingRows(sch.rows) = {MaxColumns}
    /\ \E i \in 1..(MaxColumns - 1) : sch.rows[i].references_table.keys = <<FALSE, TRUE>>
    /\ sch.raised = "ValueError"

---------------------------------------------------------------------------
(* Properties of the cache under concurrent threads                        *)

(* C22: get, set and clear exclude one another: under any interleaving of  *)
(* calls on one key by several threads no call raises, and a get that saw  *)
(* an expired entry never deletes a fresh entry a concurrent set wrote.    *)
C22_CacheCallsExclusive ==
    \A x \in Threads : thr.t[x].raised = "none" /\ ~thr.t[x].deletedFresh

---------------------------------------------------------------------------
(* Properties of racing wrapper calls                                      *)

(* Caller c's call ends in this step with the function executed under the  *)
(* cache (a SELECT).                                                       *)
FinishesCached(c) ==
    /\ callers[c].pc = "awaiting"
    /\ ~callers[c].bypass
    /\ callers'[c].pc = "returned"

(* Caller c's call is answered from the cache in this step.                *)
ServedNow(c) ==
    /\ callers'[c] # callers[c]
    /\ callers'[c].pc = "returned"
    /\ callers'[c].served

(* C23: two callers racing on one missing key may both execute the         *)
(* function; the value in the cache is the one stored by the set that ran  *)
(* last, and a later hit returns that value.                               *)
C23_LastWriteWins ==
    [][\A c \in RaceCallers :
          /\ FinishesCached(c) =>
                LET key == WrapperKey(callers[c].pos) IN
                /\ key \in DOMAIN cache'
                /\ cache'[key].value = callers'[c].result
                /\ cache'[key].timestamp = now
          /\ ServedNow(c) =>
                LET key == WrapperKey(callers'[c].pos) IN
                /\ Stored(key)
                /\ callers'[c].result = lastSet[key].value
                /\ lastSet[key].value # None]_vars

(* Both callers missed the same key before either stored it, both executed *)
(* the function with different results, and the cache holds one of them.   *)
C23_Witness ==
    /\ \A c \in RaceCallers :
          /\ callers[c].pc = "returned"
          /\ callers[c].executed
          /\ ~callers[c].bypass
          /\ ~callers[c].stored
    /\ callers["c1"].pos = callers["c2"].pos
    /\ callers["c1"].result = "r1"
    /\ callers["c2"].result = "r2"
    /\ WrapperKey(callers["c1"].pos) \in DOMAIN cache
    /\ cache[WrapperKey(callers["c1"].pos)].value = "r1"

---------------------------------------------------------------------------
(* Properties of execute on a disconnected instance                        *)

(* C24: execute sends its statement only on a live connection: entered     *)
(* without one it connects first, and whenever the connect step returns    *)
(* without error the instance holds an open handle, for every max_retries. *)
C24_ExecuteOnLiveConnection ==
    /\ task.pc = "sending" => conn = "open"
    /\ (task.op = "connect" /\ task.pc = "done" /\ task.outcome = "ok") => conn = "open"
    /\ (task.op = "execute" /\ task.startConn # "open" /\ task.pc \in {"sending", "done"})
          => task.attempts > 0

---------------------------------------------------------------------------
(* Properties of the migration records                                     *)

(* The positions of the statements of a kind in the log.                   *)
Positions(lg, kind) == {i \in DOMAIN lg : lg[i].kind = kind}

(* C25: when the CREATE statement fails, no migration file is written and  *)
(* the error reaches the caller with the table still absent; a create      *)
(* migration file is written only after the CREATE statement succeeded.    *)
C25_NoMigrationForFailedCreate ==
    [][/\ (Positions(log', "CREATE") # {} /\ ~db'.exists)
            => /\ Positions(log', "MIGRATION") = {}
               /\ db'.migrations = db.migrations
               /\ out'.outcome = "error"
               /\ out'.raised # "none"
       /\ \A i \in Positions(log', "MIGRATION") :
             /\ i > 1
             /\ log'[i - 1].kind = "CREATE"
             /\ db'.exists
             /\ ~db.exists
       /\ db'.migrations # db.migrations => Positions(log', "MIGRATION") # {}]_vars

(* A CREATE has failed: the call raised, the table is absent, and no file  *)
(* was written.                                                            *)
C25_Witness ==
    /\ out.op \in {"ensure", "insert", "update"}
    /\ Positions(log, "CREATE") # {}
    /\ out.outcome = "error"
    /\ ~db.exists
    /\ db.migrations = 0

(* The directory of the dialect that executed the statement.               *)
DialectDir(b) == "./migrations_" \o b

(* C26: every schema-changing statement schema sync executes, each CREATE  *)
(* TABLE and each ALTER TABLE ADD COLUMN, produces one migration record    *)
(* file, in a directory specific to the dialect of the model.              *)
C26_OneRecordPerSchemaChange ==
    [][out'.outcome = "ok"
        => /\ Cardinality(Positions(log', "MIGRATION"))
                = Cardinality(Positions(log', "CREATE")) + Cardinality(Positions(log', "ALTER"))
           /\ \A i \in Positions(log', "MIGRATION") : log'[i].cols = <<DialectDir(mdl.backend)>>]_vars

---------------------------------------------------------------------------
(* Properties of a repeated save                                           *)

(* This step is a save() of the instance that sent an INSERT and returned. *)
InsertingSave ==
    /\ out'.op = "insert"
    /\ out'.outcome = "ok"
    /\ log' # <<>>

(* C27: an inserting save() leaves the instance's column values as they    *)
(* were, the primary-key value included: the identity the backend assigned *)
(* is returned and not written back, so a second save() of the instance    *)
(* sends another INSERT and adds a second row, and sends no UPDATE.        *)
C27_SaveDoesNotWriteBack ==
    [][/\ InsertingSave
            => /\ mdl' = mdl
               /\ KeyUnset(mdl')
               /\ IsInsert(mdl')
       /\ (out.op = "insert" /\ out.outcome = "ok" /\ out'.op \in {"insert", "update"})
            => /\ out'.op = "insert"
               /\ OfKind(log', {"UPDATE"}) = <<>>
               /\ OfKind(log', {"INSERT"}) # <<>>
               /\ out'.outcome = "ok" => Len(db'.rows) > Len(db.rows)]_vars

(* After two saves of one SQLite instance that declares its key: two rows, *)
(* the second call returned the second identity, the key is still unset.   *)
C27_Witness ==
    /\ out.op = "insert"
    /\ out.outcome = "ok"
    /\ mdl.backend = "sqlite"
    /\ PkCols(mdl) # <<>>
    /\ KeyUnset(mdl)
    /\ Len(db.rows) = 2
    /\ out.value = PyInt(2)

---------------------------------------------------------------------------
(* Properties of concurrent ensure_table_exists                            *)

(* C28: when model instances run ensure_table_exists at once for one       *)
(* absent table, every call completes without error and the table is       *)
(* created exactly once.                                                   *)
C28_ConcurrentEnsureSucceeds ==
    /\ \A i \in Instances : ens.p[i].outcome # "error"
    /\ ens.creates <= 1
    /\ (\E i \in Instances : ens.p[i].pc = "done") => ens.creates = 1

---------------------------------------------------------------------------
(* Properties of the class-level queries                                   *)

(* C29: when get_all, get_all_by or execute_query of the PostgreSQL        *)
(* backend returns, the connection it opened to run the query is closed,   *)
(* for empty and non-empty result sets alike.                              *)
C29_ClassQueryClosesConnection ==
    qry.pc = "returned" => qry.handle = "closed"

---------------------------------------------------------------------------
(* Properties of the shared cache                                          *)

(* The key made of a call's query text and positional args alone.          *)
TextAndArgs(c) == <<c.query, MakeParams(c.args)>>

(* A call starts in this step.                                             *)
StartsCall == shr'.call # shr.call /\ shr.call.pc # "awaiting"

=============================================================================
